---- MODULE Spec2Model ----
(***************************************************************************)
(* A model of the cmdparse library: the grammar lexer and recursive-descent *)
(* parser, the compiler to VM instructions, the matching VM and the Cmds    *)
(* facade (Add / Compile / Parse).                                          *)
(*                                                                          *)
(* Strings are TLA+ strings; a rune is a string of length one, obtained     *)
(* with SubSeq(s, i, i).  Go indices are 0-based and kept 0-based here; a   *)
(* Go slice s is a TLA+ sequence, and s[i] in Go is s[i + 1] here.          *)
(***************************************************************************)
EXTENDS Integers, Sequences, FiniteSets, TLC

(***************************************************************************)
(* Runes                                                                    *)
(***************************************************************************)

\* The letters and digits the model's grammar and input strings draw from.
Letters == "abcdefghijklmnopqrstuvwxyzABCDEFGHIJKLMNOPQRSTUVWXYZ"

Digits == "0123456789"

RuneAt(s, i) == SubSeq(s, i + 1, i + 1)

InString(r, s) == \E i \in 1..Len(s) : SubSeq(s, i, i) = r

\* unicode.IsSpace
IsSpace(r) == r \in {" ", "\t", "\n", "\r"}

\* unicode.IsLetter
IsLetter(r) == InString(r, Letters)

\* unicode.IsDigit
IsDigit(r) == InString(r, Digits)

(***************************************************************************)
(* Grammar lexer (type scanner)                                             *)
(***************************************************************************)

nilToken == [typ |-> "nilTok", value |-> "", pos |-> 0]

\* token.len: the byte length of a word's value, 1 for punctuation.
tokenLen(t) == IF t.typ = "wordTok" THEN Len(t.value) ELSE 1

isValidWordRune(r) == IsLetter(r) \/ IsDigit(r) \/ r = "_" \/ r = "-"

\* The token type of a punctuation rune ("" for any other rune).
punctTok(r) ==
    CASE r = "<" -> "lessThanTok"
      [] r = ">" -> "greaterThanTok"
      [] r = "|" -> "pipeTok"
      [] r = "*" -> "starTok"
      [] r = "+" -> "plusTok"
      [] r = "?" -> "questionTok"
      [] r = "(" -> "leftParenTok"
      [] r = ")" -> "rightParenTok"
      [] r = ":" -> "colonTok"
      [] OTHER -> ""

\* scanner.word's loop: the end of the run of word runes that starts at pos.
RECURSIVE wordEnd(_, _)
wordEnd(in, pos) ==
    IF pos >= Len(in) THEN pos
    ELSE IF isValidWordRune(RuneAt(in, pos)) THEN wordEnd(in, pos + 1)
    ELSE pos

\* scanner.word, called with pos < Len(in): [tok, err, pos].
scanWord(in, pos) ==
    IF ~isValidWordRune(RuneAt(in, pos))
    THEN [tok |-> nilToken,
          err |-> "Invalid character '" \o RuneAt(in, pos) \o "' encountered",
          pos |-> pos + 1]
    ELSE [tok |-> [typ |-> "wordTok",
                   value |-> SubSeq(in, pos + 1, wordEnd(in, pos)),
                   pos |-> 0],
          err |-> "",
          pos |-> wordEnd(in, pos)]

\* The whitespace skip at the head of scanner.next.
RECURSIVE skipSpace(_, _)
skipSpace(in, pos) ==
    IF pos >= Len(in) THEN pos
    ELSE IF IsSpace(RuneAt(in, pos)) THEN skipSpace(in, pos + 1)
    ELSE pos

\* scanner.next after the whitespace skip, s.pos = pos: [tok, err, pos]; err
\* is "EOF" at the end of the input.
scanToken(in, pos) ==
    IF pos >= Len(in) THEN [tok |-> nilToken, err |-> "EOF", pos |-> pos]
    ELSE IF punctTok(RuneAt(in, pos)) # ""
    THEN [tok |-> [typ |-> punctTok(RuneAt(in, pos)), value |-> "", pos |-> pos],
          err |-> "", pos |-> pos + 1]
    ELSE LET setPos(w) == IF w.err # "" THEN w ELSE [w EXCEPT !.tok.pos = pos]
         IN setPos(scanWord(in, pos))

\* scanner.next
scanNext(in, pos) == scanToken(in, skipSpace(in, pos))

\* The loop of scanner.Scan that breaks on every error, not only on io.EOF.
RECURSIVE scanLoopStopsAtError(_, _, _, _)
scanLoopStopsAtError(in, pos, tokens, errs) ==
    LET body(n) ==
            IF n.err = "EOF" THEN [tokens |-> tokens, errs |-> errs]
            ELSE IF n.err # "" THEN [tokens |-> tokens, errs |-> Append(errs, n.err)]
            ELSE scanLoopStopsAtError(in, n.pos, Append(tokens, n.tok), errs)
    IN body(scanNext(in, pos))

\* The loop of scanner.Scan from position pos with the tokens and errors so far.
RECURSIVE scanLoop(_, _, _, _)
scanLoop(in, pos, tokens, errs) ==
    LET body(n) ==
            IF n.err = "EOF" THEN [tokens |-> tokens, errs |-> errs]
            ELSE scanLoop(in, n.pos, Append(tokens, n.tok),
                          IF n.err # "" THEN Append(errs, n.err) ELSE errs)
    IN body(scanNext(in, pos))

\* scanner.Scan: [tokens, ok, errs].
Scan(cmd) ==
    LET result(s) == [tokens |-> s.tokens, ok |-> Len(s.errs) = 0, errs |-> s.errs]
    IN result(scanLoop(cmd, 0, <<>>, <<>>))

(***************************************************************************)
(* Parse tree nodes                                                         *)
(***************************************************************************)

\* The nil interface value: no tree.
NilTree == [type |-> "nil"]

word(s) == [type |-> "word", s |-> s]

variable(name, typ) == [type |-> "variable", Name |-> name, Type |-> typ]

alts(l, r) == [type |-> "alts", Left |-> l, Right |-> r]

terms(l, r) == [type |-> "terms", Left |-> l, Right |-> r]

rep(op, t) == [type |-> "rep", Op |-> op, Term |-> t]

meta(data, ch) == [type |-> "meta", data |-> data, ch |-> ch]

(***************************************************************************)
(* Recursive-descent parser (type parser).  The parser's fields are the     *)
(* record p; every method returns the parser after the call and, where the  *)
(* method has one, its result r.                                            *)
(***************************************************************************)

newParser(tokens, matchLimit) ==
    [tokens |-> tokens, errors |-> <<>>, current |-> 0,
     matchLimit |-> matchLimit, matchCalls |-> 0]

atEnd(p) == p.current >= Len(p.tokens)

peek(p) == p.tokens[p.current + 1]

previous(p) == p.tokens[p.current]

check(p, typ) == IF atEnd(p) THEN FALSE ELSE peek(p).typ = typ

advance(p) == IF ~atEnd(p) THEN [p EXCEPT !.current = @ + 1] ELSE p

\* parser.match: consumes the current token when its type is one of types.
match(p, types) ==
    LET q == IF p.matchLimit > 0 THEN [p EXCEPT !.matchCalls = @ + 1] ELSE p IN
    IF \E t \in types : check(q, t)
    THEN [p |-> advance(q), ok |-> TRUE]
    ELSE [p |-> q, ok |-> FALSE]

runePosition(p) ==
    IF p.current = 0 THEN 1
    ELSE previous(p).pos + tokenLen(previous(p))

\* fmt.Errorf("At character %d: %s", ...)
addErrorAtPosition(p, msg) ==
    [p EXCEPT !.errors =
        Append(@, "At character " \o ToString(runePosition(p) + 1) \o ": " \o msg)]

Word(p) ==
    LET result(m) ==
            IF ~m.ok THEN [p |-> m.p, r |-> NilTree]
            ELSE [p |-> m.p, r |-> word(previous(m.p).value)]
    IN result(match(p, {"wordTok"}))

\* parser.Var; the steps are listed last first: start, afterLess (the name),
\* afterName (the optional colon), withType (the type), close (the >).
Var(p) ==
    LET close(name, hasColon, typ, m) ==
            IF ~m.ok
            THEN [p |-> addErrorAtPosition(m.p,
                          IF hasColon
                          THEN "expected > to complete variable definition"
                          ELSE "expected either : to specify variable type, or > to complete variable definition"),
                  r |-> NilTree]
            ELSE [p |-> m.p, r |-> variable(name, typ)]
        withType(name, w) ==
            IF w.r = NilTree
            THEN [p |-> addErrorAtPosition(w.p, "expected variable type after :"),
                  r |-> NilTree]
            ELSE close(name, TRUE, w.r.s, match(w.p, {"greaterThanTok"}))
        afterName(name, m) ==
            IF ~m.ok THEN close(name, FALSE, "str", match(m.p, {"greaterThanTok"}))
            ELSE withType(name, Word(m.p))
        afterLess(name) ==
            IF name.r = NilTree
            THEN [p |-> addErrorAtPosition(name.p, "expected variable name after <"),
                  r |-> NilTree]
            ELSE afterName(name.r.s, match(name.p, {"colonTok"}))
        start(m) ==
            IF ~m.ok THEN [p |-> m.p, r |-> NilTree]
            ELSE afterLess(Word(m.p))
    IN start(match(p, {"lessThanTok"}))

Term(p) ==
    LET result(v) == IF v.r = NilTree THEN Word(v.p) ELSE v
    IN result(Var(p))

RECURSIVE Alternatives(_), Terms(_), Repetition(_), Group(_)

\* parser.Group that skips every ) after the group, not only the one that
\* closes it.
RECURSIVE skipRightParens(_)
skipRightParens(p) ==
    IF check(p, "rightParenTok") THEN skipRightParens(advance(p)) ELSE p

GroupSkipsExtraParens(p) ==
    LET close(res, c) ==
            [p |-> IF c.ok THEN skipRightParens(c.p)
                   ELSE addErrorAtPosition(c.p, "expected ) to close the group"),
             r |-> res.r]
        inner(res) == close(res, match(res.p, {"rightParenTok"}))
        open(m) == IF m.ok THEN inner(Alternatives(m.p)) ELSE Term(m.p)
    IN open(match(p, {"leftParenTok"}))

Group(p) ==
    LET close(res, c) ==
            [p |-> IF ~c.ok
                   THEN addErrorAtPosition(c.p, "expected ) to close the group")
                   ELSE c.p,
             r |-> res.r]
        inner(res) == close(res, match(res.p, {"rightParenTok"}))
        start(m) == IF m.ok THEN inner(Alternatives(m.p)) ELSE Term(m.p)
    IN start(match(p, {"leftParenTok"}))

repOpOf(typ) ==
    CASE typ = "starTok" -> "repeatZeroOrMore"
      [] typ = "plusTok" -> "repeatOneOrMore"
      [] typ = "questionTok" -> "repeatZeroOrOne"

Repetition(p) ==
    LET op(t, m) ==
            IF m.ok THEN [p |-> m.p, r |-> rep(repOpOf(previous(m.p).typ), t.r)]
            ELSE [p |-> m.p, r |-> t.r]
        start(t) ==
            IF t.r = NilTree THEN t
            ELSE op(t, match(t.p, {"starTok", "plusTok", "questionTok"}))
    IN start(Group(p))

\* parser.Terms that probes the rest of the sequence and then parses it again.
TermsReparses(p) ==
    LET join(l, r) ==
            IF r.r = NilTree THEN [p |-> r.p, r |-> l.r]
            ELSE [p |-> r.p, r |-> terms(l.r, r.r)]
        again(l, probe) ==
            join(l, Terms([l.p EXCEPT !.matchCalls = probe.p.matchCalls]))
        start(l) ==
            IF l.r = NilTree THEN l
            ELSE IF ~atEnd(l.p) THEN again(l, Terms(l.p))
            ELSE l
    IN start(Repetition(p))

Terms(p) ==
    LET join(l, r) ==
            IF r.r = NilTree THEN [p |-> r.p, r |-> l.r]
            ELSE [p |-> r.p, r |-> terms(l.r, r.r)]
        start(l) ==
            IF l.r = NilTree THEN l
            ELSE IF ~atEnd(l.p) THEN join(l, Terms(l.p))
            ELSE l
    IN start(Repetition(p))

\* parser.Alternatives with the right operand parsed by Terms: no chain of
\* more than two alternatives.
AlternativesOnce(p) ==
    LET join(l, r) ==
            IF r.r = NilTree
            THEN [p |-> addErrorAtPosition(r.p, "expected more tokens after the |"),
                  r |-> l.r]
            ELSE [p |-> r.p, r |-> alts(l.r, r.r)]
        pipe(l, m) ==
            IF m.ok THEN join(l, Terms(m.p))
            ELSE [p |-> m.p, r |-> l.r]
        start(l) == pipe(l, match(l.p, {"pipeTok"}))
    IN start(Terms(p))

\* parser.Alternatives that takes a missing right operand silently.
AlternativesNoDiagnostic(p) ==
    LET join(l, r) ==
            IF r.r = NilTree THEN [p |-> r.p, r |-> l.r]
            ELSE [p |-> r.p, r |-> alts(l.r, r.r)]
        pipe(l, m) ==
            IF m.ok THEN join(l, Alternatives(m.p))
            ELSE [p |-> m.p, r |-> l.r]
        start(l) == pipe(l, match(l.p, {"pipeTok"}))
    IN start(Terms(p))

Alternatives(p) ==
    LET join(l, r) ==
            IF r.r = NilTree
            THEN [p |-> addErrorAtPosition(r.p, "expected more tokens after the |"),
                  r |-> l.r]
            ELSE [p |-> r.p, r |-> alts(l.r, r.r)]
        pipe(l, m) ==
            IF m.ok THEN join(l, Alternatives(m.p))
            ELSE [p |-> m.p, r |-> l.r]
        start(l) == pipe(l, match(l.p, {"pipeTok"}))
    IN start(Terms(p))

Command(p) == Alternatives(p)

\* parser.parse that does not look for tokens left after the command.
parseNoEndCheck(p) ==
    LET finish(tree, q) == [tree |-> tree, err |-> q.errors, matchCalls |-> q.matchCalls]
        result(c) == finish(c.r, c.p)
    IN result(Command(p))

\* parser.parse: [tree, err, matchCalls]; err is the error list, <<>> for a
\* nil error.
parse(p) ==
    LET finish(tree, q) == [tree |-> tree, err |-> q.errors, matchCalls |-> q.matchCalls]
        result(c) ==
            finish(c.r, IF ~atEnd(c.p)
                        THEN addErrorAtPosition(c.p, "extra tokens after end of command")
                        ELSE c.p)
    IN result(Command(p))

\* parser.Parse
ParserParse(tokens, matchLimit) == parse(newParser(tokens, matchLimit))

(***************************************************************************)
(* Compiler (type compiler).  The compiler's fields are the record c:       *)
(* instr, the program being written, pc, the write cursor, and panic, set   *)
(* when the Go code aborts (unknown node type, index out of range).         *)
(***************************************************************************)

\* The zero value of type instr; opNop is opcode 0, "nil" the nil interface.
zeroInstr ==
    [opcode |-> "opNop", ints |-> <<0, 0>>, strs |-> <<"", "">>,
     intf |-> "nil", gen |-> 0]

\* Whether countinstr reaches its default branch (panic) on the tree.
RECURSIVE countinstrPanics(_)
countinstrPanics(ptree) ==
    CASE ptree.type = "alts" ->
            countinstrPanics(ptree.Left) \/ countinstrPanics(ptree.Right)
      [] ptree.type = "word" -> FALSE
      [] ptree.type = "variable" -> FALSE
      [] ptree.type = "rep" ->
            IF ptree.Op \in {"repeatZeroOrMore", "repeatOneOrMore", "repeatZeroOrOne"}
            THEN countinstrPanics(ptree.Term)
            ELSE FALSE
      [] ptree.type = "terms" ->
            countinstrPanics(ptree.Left) \/ countinstrPanics(ptree.Right)
      [] ptree.type = "meta" -> countinstrPanics(ptree.ch)
      [] OTHER -> TRUE

\* compiler.countinstr that counts one instruction, not two, for a
\* zero-or-more repetition.
RECURSIVE countinstrShortStar(_)
countinstrShortStar(ptree) ==
    CASE ptree.type = "alts" ->
            2 + countinstrShortStar(ptree.Left) + countinstrShortStar(ptree.Right)
      [] ptree.type = "word" -> 1
      [] ptree.type = "variable" -> 1
      [] ptree.type = "rep" ->
            CASE ptree.Op = "repeatZeroOrMore" -> 1 + countinstrShortStar(ptree.Term)
              [] ptree.Op = "repeatOneOrMore" -> countinstrShortStar(ptree.Term) + 1
              [] ptree.Op = "repeatZeroOrOne" -> 1 + countinstrShortStar(ptree.Term)
              [] OTHER -> 0
      [] ptree.type = "terms" ->
            countinstrShortStar(ptree.Left) + countinstrShortStar(ptree.Right)
      [] ptree.type = "meta" -> 1 + countinstrShortStar(ptree.ch)
      [] OTHER -> 0

RECURSIVE countinstr(_)
countinstr(ptree) ==
    CASE ptree.type = "alts" -> 2 + countinstr(ptree.Left) + countinstr(ptree.Right)
      [] ptree.type = "word" -> 1
      [] ptree.type = "variable" -> 1
      [] ptree.type = "rep" ->
            CASE ptree.Op = "repeatZeroOrMore" -> 2 + countinstr(ptree.Term)
              [] ptree.Op = "repeatOneOrMore" -> countinstr(ptree.Term) + 1
              [] ptree.Op = "repeatZeroOrOne" -> 1 + countinstr(ptree.Term)
              [] OTHER -> 0
      [] ptree.type = "terms" -> countinstr(ptree.Left) + countinstr(ptree.Right)
      [] ptree.type = "meta" -> 1 + countinstr(ptree.ch)
      [] OTHER -> 0

\* Add 1 for the final opMatch.
countinstrForProgram(ptree) == countinstr(ptree) + 1

\* The assignment *(&c.instr[at]) = i; an index outside the program aborts.
setInstr(c, at, i) ==
    IF at < 0 \/ at >= Len(c.instr) THEN [c EXCEPT !.panic = TRUE]
    ELSE [c EXCEPT !.instr[at + 1] = i]

\* c.instr[at], the zero instruction when at is outside the program (the
\* access aborts: see setInstr).
getInstr(c, at) ==
    IF at < 0 \/ at >= Len(c.instr) THEN zeroInstr ELSE c.instr[at + 1]

incPc(c) == [c EXCEPT !.pc = @ + 1]

emitWord(c, w) ==
    incPc(setInstr(c, c.pc,
        [getInstr(c, c.pc) EXCEPT !.opcode = "opCmp", !.strs[1] = w.s]))

\* compiler.emitVar that stores the name and leaves the type out.
emitVarNoType(c, n) ==
    incPc(setInstr(c, c.pc,
        [getInstr(c, c.pc) EXCEPT !.opcode = "opSave", !.strs[1] = n.Name]))

emitVar(c, n) ==
    incPc(setInstr(c, c.pc,
        [getInstr(c, c.pc) EXCEPT !.opcode = "opSave", !.strs[1] = n.Name,
                                  !.strs[2] = n.Type]))

emitMatch(c) ==
    incPc(setInstr(c, c.pc, [getInstr(c, c.pc) EXCEPT !.opcode = "opMatch"]))

RECURSIVE emit(_, _)

\* compiler.emitAlts with the jump after the left alternative aimed at the
\* start of the right alternative instead of its end.
emitAltsJmpToRight(c, a) ==
    LET right(c4) == emit(c4, a.Right)
        setTargets(c3, split, jmp) ==
            right(setInstr(setInstr(c3, split,
                                    [getInstr(c3, split) EXCEPT !.ints[2] = c3.pc]),
                           jmp, [getInstr(c3, jmp) EXCEPT !.ints[1] = c3.pc]))
        jump(c2, split) ==
            setTargets(
                incPc(setInstr(c2, c2.pc, [getInstr(c2, c2.pc) EXCEPT !.opcode = "opJmp"])),
                split, c2.pc)
        left(c1, split) == jump(emit(c1, a.Left), split)
    IN left(incPc(setInstr(c, c.pc,
                [getInstr(c, c.pc) EXCEPT !.opcode = "opSplit", !.ints[1] = c.pc + 1])),
            c.pc)

\* compiler.emitAlts; the steps are listed last first.  split and jmp are the
\* indices the pointers of the same names hold.
emitAlts(c, a) ==
    LET setJmpTarget(c5, jmp) ==
            setInstr(c5, jmp, [getInstr(c5, jmp) EXCEPT !.ints[1] = c5.pc])
        right(c4, jmp) == setJmpTarget(emit(c4, a.Right), jmp)
        setSplitTarget(c3, split, jmp) ==
            right(setInstr(c3, split, [getInstr(c3, split) EXCEPT !.ints[2] = c3.pc]),
                  jmp)
        jump(c2, split) ==
            setSplitTarget(
                incPc(setInstr(c2, c2.pc, [getInstr(c2, c2.pc) EXCEPT !.opcode = "opJmp"])),
                split, c2.pc)
        left(c1, split) == jump(emit(c1, a.Left), split)
    IN left(incPc(setInstr(c, c.pc,
                [getInstr(c, c.pc) EXCEPT !.opcode = "opSplit", !.ints[1] = c.pc + 1])),
            c.pc)

emitTerms(c, t) == emit(emit(c, t.Left), t.Right)

\* compiler.emitZeroOrMore with both targets of the split at the start of
\* the term: the repetition has no exit.
emitZeroOrMoreNoExit(c, r) ==
    LET jump(c2, splitNdx) ==
            incPc(setInstr(c2, c2.pc,
                [getInstr(c2, c2.pc) EXCEPT !.opcode = "opJmp", !.ints[1] = splitNdx]))
        body(c1, splitNdx) == jump(emit(c1, r.Term), splitNdx)
    IN body(incPc(setInstr(c, c.pc,
                [getInstr(c, c.pc) EXCEPT !.opcode = "opSplit", !.ints[1] = c.pc + 1,
                                          !.ints[2] = c.pc + 1])),
            c.pc)

emitZeroOrMore(c, r) ==
    LET setSplitTarget(c3, splitNdx) ==
            setInstr(c3, splitNdx, [getInstr(c3, splitNdx) EXCEPT !.ints[2] = c3.pc])
        jump(c2, splitNdx) ==
            setSplitTarget(
                incPc(setInstr(c2, c2.pc,
                    [getInstr(c2, c2.pc) EXCEPT !.opcode = "opJmp", !.ints[1] = splitNdx])),
                splitNdx)
        body(c1, splitNdx) == jump(emit(c1, r.Term), splitNdx)
    IN body(incPc(setInstr(c, c.pc,
                [getInstr(c, c.pc) EXCEPT !.opcode = "opSplit", !.ints[1] = c.pc + 1])),
            c.pc)

\* compiler.emitOneOrMore with the second target of the split one
\* instruction too far.
emitOneOrMorePastNext(c, r) ==
    LET split(c1, splitDst1) ==
            incPc(setInstr(c1, c1.pc,
                [getInstr(c1, c1.pc) EXCEPT !.opcode = "opSplit", !.ints[1] = splitDst1,
                                            !.ints[2] = c1.pc + 2]))
    IN split(emit(c, r.Term), c.pc)

emitOneOrMore(c, r) ==
    LET split(c1, splitDst1) ==
            incPc(setInstr(c1, c1.pc,
                [getInstr(c1, c1.pc) EXCEPT !.opcode = "opSplit", !.ints[1] = splitDst1,
                                            !.ints[2] = c1.pc + 1]))
    IN split(emit(c, r.Term), c.pc)

\* compiler.emitZeroOrOne with the second target of the split left at the
\* start of the term.
emitZeroOrOneNoSkip(c, r) ==
    LET setSplitTarget(c2, split) ==
            setInstr(c2, split, [getInstr(c2, split) EXCEPT !.ints[2] = split + 1])
        body(c1, split) == setSplitTarget(emit(c1, r.Term), split)
    IN body(incPc(setInstr(c, c.pc,
                [getInstr(c, c.pc) EXCEPT !.opcode = "opSplit", !.ints[1] = c.pc + 1])),
            c.pc)

emitZeroOrOne(c, r) ==
    LET setSplitTarget(c2, split) ==
            setInstr(c2, split, [getInstr(c2, split) EXCEPT !.ints[2] = c2.pc])
        body(c1, split) == setSplitTarget(emit(c1, r.Term), split)
    IN body(incPc(setInstr(c, c.pc,
                [getInstr(c, c.pc) EXCEPT !.opcode = "opSplit", !.ints[1] = c.pc + 1])),
            c.pc)

emitRep(c, r) ==
    CASE r.Op = "repeatZeroOrMore" -> emitZeroOrMore(c, r)
      [] r.Op = "repeatOneOrMore" -> emitOneOrMore(c, r)
      [] r.Op = "repeatZeroOrOne" -> emitZeroOrOne(c, r)
      [] OTHER -> c

emitMeta(c, m) ==
    emit(incPc(setInstr(c, c.pc,
            [getInstr(c, c.pc) EXCEPT !.opcode = "opMeta", !.intf = m.data])),
         m.ch)

emit(c, ptree) ==
    CASE ptree.type = "alts" -> emitAlts(c, ptree)
      [] ptree.type = "word" -> emitWord(c, ptree)
      [] ptree.type = "variable" -> emitVar(c, ptree)
      [] ptree.type = "terms" -> emitTerms(c, ptree)
      [] ptree.type = "rep" -> emitRep(c, ptree)
      [] ptree.type = "meta" -> emitMeta(c, ptree)
      [] OTHER -> [c EXCEPT !.panic = TRUE]

\* make([]instr, n) in a zero compiler.
newCompiler(n) ==
    [instr |-> [i \in 1..n |-> zeroInstr], pc |-> 0, panic |-> FALSE]

\* compiler.compile on a zero compiler, then compiler.prog: [prog, panic].
\* A nil tree leaves the program nil (empty).
compile(ptree) ==
    LET result(c) == [prog |-> c.instr, panic |-> c.panic] IN
    IF ptree = NilTree THEN [prog |-> <<>>, panic |-> FALSE]
    ELSE IF countinstrPanics(ptree) THEN [prog |-> <<>>, panic |-> TRUE]
    ELSE result(emitMatch(emit(newCompiler(countinstrForProgram(ptree)), ptree)))

(***************************************************************************)
(* User input scanner (type cmdScanner)                                     *)
(***************************************************************************)

\* cmdScanner.innerTokenize with a double quote opening a quoted region in
\* the InWord state as well.
RECURSIVE innerTokenizeQuoteAnywhere(_, _, _, _, _)
innerTokenizeQuoteAnywhere(runes, i, state, buf, words) ==
    IF i >= Len(runes)
    THEN IF Len(buf) # 0 THEN Append(words, buf) ELSE words
    ELSE
    LET step(r) ==
    CASE state = "Default" ->
            IF ~IsSpace(r)
            THEN IF r = "\""
                 THEN innerTokenizeQuoteAnywhere(runes, i + 1, "WaitingForTerminator", buf, words)
                 ELSE innerTokenizeQuoteAnywhere(runes, i + 1, "InWord", buf \o r, words)
            ELSE innerTokenizeQuoteAnywhere(runes, i + 1, "Default", buf, words)
      [] state = "InWord" ->
            IF IsSpace(r)
            THEN innerTokenizeQuoteAnywhere(runes, i + 1, "Default", "", Append(words, buf))
            ELSE IF r = "\""
            THEN innerTokenizeQuoteAnywhere(runes, i + 1, "WaitingForTerminator", buf, words)
            ELSE innerTokenizeQuoteAnywhere(runes, i + 1, "InWord", buf \o r, words)
      [] state = "WaitingForTerminator" ->
            IF r = "\""
            THEN innerTokenizeQuoteAnywhere(runes, i + 1, "Default", "", Append(words, buf))
            ELSE innerTokenizeQuoteAnywhere(runes, i + 1, "WaitingForTerminator", buf \o r, words)
    IN step(RuneAt(runes, i))

\* cmdScanner.innerTokenize from rune index i on: state is the scanner state
\* (Default, InWord, WaitingForTerminator), buf the word buffer t.word and
\* words the words added so far.  The terminator is always the double quote.
RECURSIVE innerTokenize(_, _, _, _, _)
innerTokenize(runes, i, state, buf, words) ==
    IF i >= Len(runes)
    THEN IF Len(buf) # 0 THEN Append(words, buf) ELSE words
    ELSE
    LET step(r) ==
    CASE state = "Default" ->
            IF ~IsSpace(r)
            THEN IF r = "\""
                 THEN innerTokenize(runes, i + 1, "WaitingForTerminator", buf, words)
                 ELSE innerTokenize(runes, i + 1, "InWord", buf \o r, words)
            ELSE innerTokenize(runes, i + 1, "Default", buf, words)
      [] state = "InWord" ->
            IF IsSpace(r)
            THEN innerTokenize(runes, i + 1, "Default", "", Append(words, buf))
            ELSE innerTokenize(runes, i + 1, "InWord", buf \o r, words)
      [] state = "WaitingForTerminator" ->
            IF r = "\""
            THEN innerTokenize(runes, i + 1, "Default", "", Append(words, buf))
            ELSE innerTokenize(runes, i + 1, "WaitingForTerminator", buf \o r, words)
    IN step(RuneAt(runes, i))

\* cmdScanner.Scan with the scanner starting in the InWord state.
cmdScanFromInWord(command) == innerTokenize(command, 0, "InWord", "", <<>>)

\* cmdScanner.Scan on a zero cmdScanner.
cmdScan(command) == innerTokenize(command, 0, "Default", "", <<>>)

(***************************************************************************)
(* Matching VM (type vm).  The vm's fields are the record v.  A thread is   *)
(* [pc, items, meta]; a binding is [instr, val] with instr the index of the *)
(* instruction pointed to and val the input word pointed to.                *)
(*                                                                          *)
(* currentThreads holds the entries of the current list from processWord's  *)
(* loop index i on, the threads yet to run: the loop never reads an entry   *)
(* below i again.  pass is the position in execute: pass k < n is the call  *)
(* processWord(&input[k]), pass n the call processWord(nil) of execute,     *)
(* pass n + 1 the one of finishThreads, and n + 2 means execute returned.   *)
(***************************************************************************)

\* var v vm
zeroVm ==
    [prog |-> <<>>, input |-> <<>>, currentThreads |-> <<>>, nextThreads |-> <<>>,
     matches |-> <<>>, gen |-> 0, wordIndex |-> 0, traceWriter |-> FALSE,
     pass |-> 0]

\* &thread{pc: pc}
newThread(pc) == [pc |-> pc, items |-> <<>>, meta |-> "nil"]

\* thread.clone that leaves the binding list of the copy empty.
cloneNoItems(t) == [pc |-> t.pc, items |-> <<>>, meta |-> t.meta]

\* thread.clone: the binding list is copied, so the two lists are independent
\* values afterwards.
clone(t) == [pc |-> t.pc, items |-> t.items, meta |-> t.meta]

setPc(t, pc) == [t EXCEPT !.pc = pc]

\* thread.bind
bind(t, instr, val) == [t EXCEPT !.items = Append(@, [instr |-> instr, val |-> val])]

\* strings.HasPrefix(s, prefix)
HasPrefix(s, prefix) ==
    /\ Len(prefix) <= Len(s)
    /\ SubSeq(s, 1, Len(prefix)) = prefix

\* A *string: nil, or a pointer to an input word.
nilWord == [isNil |-> TRUE, s |-> ""]

wordPtr(s) == [isNil |-> FALSE, s |-> s]

\* vm.addThread without the test for an empty program.
addThreadOnEmptyProgram(v, l, t) ==
    IF Len(v.prog) # 0 /\ v.prog[t.pc + 1].gen = v.gen THEN v
    ELSE [v EXCEPT ![l] = Append(@, t)]

\* vm.addThread that stamps the instruction with the current generation
\* when it appends the thread.
addThreadStamping(v, l, t) ==
    IF Len(v.prog) = 0 THEN v
    ELSE IF v.prog[t.pc + 1].gen = v.gen THEN v
    ELSE [v EXCEPT ![l] = Append(@, t), !.prog[t.pc + 1].gen = v.gen]

\* vm.addThread; l names the list, "currentThreads" or "nextThreads".
addThread(v, l, t) ==
    IF Len(v.prog) = 0 THEN v
    ELSE IF v.prog[t.pc + 1].gen = v.gen THEN v
    ELSE [v EXCEPT ![l] = Append(@, t)]

\* The item addMatch builds from binding b.
matchItem(v, b) ==
    LET item(i) ==
            IF i.opcode = "opCmp"
            THEN [kind |-> "keywordValue", Name |-> i.strs[1], Type |-> "",
                  Value |-> b.val]
            ELSE [kind |-> "VarValue", Name |-> i.strs[1], Type |-> i.strs[2],
                  Value |-> b.val]
    IN item(v.prog[b.instr + 1])

\* vm.addMatch that takes a thread for a duplicate when a match with as many
\* items and the same meta is already recorded.
addMatchDeduplicated(v, t) ==
    IF \E k \in 1..Len(v.matches) :
           /\ Len(v.matches[k].items) = Len(t.items)
           /\ v.matches[k].meta = t.meta
    THEN v
    ELSE [v EXCEPT !.matches =
            Append(@, [items |-> [k \in 1..Len(t.items) |-> matchItem(v, t.items[k])],
                       meta |-> t.meta])]

\* vm.addMatch
addMatch(v, t) ==
    [v EXCEPT !.matches =
        Append(@, [items |-> [k \in 1..Len(t.items) |-> matchItem(v, t.items[k])],
                   meta |-> t.meta])]

doJmp(v, t, instr) == addThread(v, "currentThreads", setPc(t, instr.ints[1]))

doSplit(v, t, instr) ==
    addThread(addThread(v, "currentThreads", setPc(t, instr.ints[1])),
              "currentThreads", setPc(clone(t), instr.ints[2]))

\* vm.doCmp that accepts only the whole keyword.
doCmpExact(v, t, instr, w) ==
    IF ~w.isNil /\ instr.strs[1] = w.s
    THEN addThread(v, "nextThreads", setPc(bind(t, t.pc, w.s), t.pc + 1))
    ELSE v

doCmp(v, t, instr, w) ==
    IF ~w.isNil /\ HasPrefix(instr.strs[1], w.s)
    THEN addThread(v, "nextThreads", setPc(bind(t, t.pc, w.s), t.pc + 1))
    ELSE v

doSave(v, t, instr, w) ==
    IF ~w.isNil
    THEN addThread(v, "nextThreads", setPc(bind(t, t.pc, w.s), t.pc + 1))
    ELSE v

\* vm.doMeta that steps over the instruction without setting the register.
doMetaSkip(v, t, instr) == addThread(v, "currentThreads", setPc(t, t.pc + 1))

doMeta(v, t, instr) ==
    addThread(v, "currentThreads", setPc([t EXCEPT !.meta = instr.intf], t.pc + 1))

\* vm.trace and vm.traceBind index v.input[v.wordIndex] when a trace writer
\* is set: out of range (a panic) when the input is empty.
tracePanics(v) == v.traceWriter /\ v.wordIndex >= Len(v.input)

\* vm.continu for thread t, already taken off the threads still to run.
currentinstr(v, t) == v.prog[t.pc + 1]

continu(v, t, w) ==
    LET run(instr) ==
            CASE instr.opcode = "opNop" -> v
              [] instr.opcode = "opJmp" -> doJmp(v, t, instr)
              [] instr.opcode = "opMatch" -> addMatch(v, t)
              [] instr.opcode = "opSplit" -> doSplit(v, t, instr)
              [] instr.opcode = "opCmp" -> doCmp(v, t, instr, w)
              [] instr.opcode = "opSave" -> doSave(v, t, instr, w)
              [] instr.opcode = "opMeta" -> doMeta(v, t, instr)
    IN run(currentinstr(v, t))

\* The word of a processWord call that is always given the first word.
currentWordFirst(v) ==
    IF v.pass < Len(v.input) THEN wordPtr(v.input[1]) ELSE nilWord

\* The word of the processWord call at position v.pass.
currentWord(v) ==
    IF v.pass < Len(v.input) THEN wordPtr(v.input[v.pass + 1]) ELSE nilWord

\* The head of a processWord call: v.gen++.
processWordBegin(v) == [v EXCEPT !.gen = @ + 1]

\* The start of vm.execute, up to the head of its first processWord call.
executeBegin(v0, prog, input) ==
    processWordBegin(
        addThread([v0 EXCEPT !.prog = prog, !.input = input,
                             !.currentThreads = <<>>, !.nextThreads = <<>>,
                             !.matches = <<>>, !.gen = 1, !.pass = 0],
                  "currentThreads", newThread(0)))

\* One iteration of processWord's loop.
processWordStep(v) ==
    continu([v EXCEPT !.currentThreads = Tail(@)], Head(v.currentThreads),
            currentWord(v))

\* The tail of a processWord call (swap, clear), then the head of the next
\* call when there is one: the range loop of execute sets wordIndex.
processWordEnd(v) ==
    LET next(v1) ==
            IF v1.pass < Len(v1.input)
            THEN processWordBegin([v1 EXCEPT !.wordIndex = v1.pass])
            ELSE IF v1.pass <= Len(v1.input) + 1 THEN processWordBegin(v1)
            ELSE v1
    IN next([v EXCEPT !.currentThreads = v.nextThreads, !.nextThreads = <<>>,
                      !.pass = @ + 1])

executeReturned(v) == v.pass = Len(v.input) + 2

\* vm.execute(prog, input) on the vm v0, run to its return.
RECURSIVE executeLoop(_)
executeLoop(v) ==
    IF executeReturned(v) THEN v
    ELSE IF v.currentThreads # <<>> THEN executeLoop(processWordStep(v))
    ELSE executeLoop(processWordEnd(v))

execute(v0, prog, input) == executeLoop(executeBegin(v0, prog, input))

\* vm.longestMatches: the first loop, over v.matches[k..], with the running
\* count and mlen.
RECURSIVE longestCount(_, _, _, _)
longestCount(ms, k, count, mlen) ==
    IF k > Len(ms) THEN [count |-> count, mlen |-> mlen]
    ELSE IF Len(ms[k].items) > mlen THEN longestCount(ms, k + 1, 1, Len(ms[k].items))
    ELSE IF Len(ms[k].items) = mlen THEN longestCount(ms, k + 1, count + 1, mlen)
    ELSE longestCount(ms, k + 1, count, mlen)

\* vm.longestMatches: the second loop, filling out (of length count) at i.
RECURSIVE longestFill(_, _, _, _, _)
longestFill(ms, k, mlen, out, i) ==
    IF k > Len(ms) THEN out
    ELSE IF Len(ms[k].items) = mlen
    THEN longestFill(ms, k + 1, mlen, [out EXCEPT ![i + 1] = ms[k]], i + 1)
    ELSE longestFill(ms, k + 1, mlen, out, i)

\* The zero value of type match.
zeroMatch == [items |-> <<>>, meta |-> "nil"]

\* vm.longestMatches that keeps the first of the longest matches only.
longestMatchesNoTies(v) ==
    LET first(m) == SubSeq(m, 1, IF Len(m) > 0 THEN 1 ELSE 0)
        fill(c) ==
            longestFill(v.matches, 1, c.mlen, [j \in 1..c.count |-> zeroMatch], 0)
    IN first(fill(longestCount(v.matches, 1, 0, 0)))

longestMatches(v) ==
    LET fill(c) ==
            longestFill(v.matches, 1, c.mlen, [j \in 1..c.count |-> zeroMatch], 0)
    IN fill(longestCount(v.matches, 1, 0, 0))

\* vm.maximalMatches without the comparison with the input length.
maximalMatchesAnyLength(v) == longestMatches(v)

maximalMatches(v) ==
    LET result(m) ==
            IF Len(m) > 0 /\ Len(m[1].items) # Len(v.input) THEN <<>> ELSE m
    IN result(longestMatches(v))

(***************************************************************************)
(* Cmds: the registration and dispatch facade                               *)
(***************************************************************************)

\* Cmds.scanAndParse: [tree, err]; err is <<>> for a nil error.
scanAndParse(cmd) ==
    LET parsed(r) == [tree |-> r.tree, err |-> r.err]
        scanned(s) ==
            IF ~s.ok THEN [tree |-> NilTree, err |-> s.errs]
            ELSE parsed(ParserParse(s.tokens, 0))
    IN scanned(Scan(cmd))

\* Cmds.addParseTree: the new value of c.parseTree.
addParseTree(tree0, tree, cback) ==
    IF tree0 = NilTree THEN meta(cback, tree) ELSE alts(meta(cback, tree), tree0)

\* The number of commands registered in c.parseTree.
RECURSIVE NumCmds(_)
NumCmds(parseTree) ==
    CASE parseTree.type = "alts" -> 1 + NumCmds(parseTree.Right)
      [] parseTree.type = "meta" -> 1
      [] OTHER -> 0

\* The loop of cmdMatch.Var from item index i (1-based) on that leaves out
\* the type assertion: every item with the name is returned.
RECURSIVE cmdMatchVarLoopAnyKind(_, _, _, _)
cmdMatchVarLoopAnyKind(items, i, name, value) ==
    IF i > Len(items) THEN value
    ELSE IF items[i].Name = name
    THEN cmdMatchVarLoopAnyKind(items, i + 1, name,
             Append(value, [Name |-> items[i].Name, Type |-> items[i].Type,
                            Value |-> items[i].Value]))
    ELSE cmdMatchVarLoopAnyKind(items, i + 1, name, value)

\* The loop of cmdMatch.Var from item index i (1-based) on, with the values
\* appended so far.
RECURSIVE cmdMatchVarLoop(_, _, _, _)
cmdMatchVarLoop(items, i, name, value) ==
    IF i > Len(items) THEN value
    ELSE IF items[i].kind = "VarValue" /\ items[i].Name = name
    THEN cmdMatchVarLoop(items, i + 1, name,
             Append(value, [Name |-> items[i].Name, Type |-> items[i].Type,
                            Value |-> items[i].Value]))
    ELSE cmdMatchVarLoop(items, i + 1, name, value)

\* cmdMatch.Var(name) on the match c.
cmdMatchVar(c, name) == cmdMatchVarLoop(c.items, 1, name, <<>>)

\* The loop of cmdMatch.KeywordPresent that compares the name with the word
\* the user typed instead of the keyword.
RECURSIVE cmdMatchKeywordPresentLoopTyped(_, _, _)
cmdMatchKeywordPresentLoopTyped(items, i, name) ==
    IF i > Len(items) THEN FALSE
    ELSE IF items[i].kind = "keywordValue" /\ items[i].Value = name THEN TRUE
    ELSE cmdMatchKeywordPresentLoopTyped(items, i + 1, name)

\* The loop of cmdMatch.KeywordPresent from item index i (1-based) on.
RECURSIVE cmdMatchKeywordPresentLoop(_, _, _)
cmdMatchKeywordPresentLoop(items, i, name) ==
    IF i > Len(items) THEN FALSE
    ELSE IF items[i].kind = "keywordValue" /\ items[i].Name = name THEN TRUE
    ELSE cmdMatchKeywordPresentLoop(items, i + 1, name)

\* cmdMatch.KeywordPresent(name) on the match c.
cmdMatchKeywordPresent(c, name) == cmdMatchKeywordPresentLoop(c.items, 1, name)

(***************************************************************************)
(* Bounds and the inputs the model draws from                               *)
(***************************************************************************)

\* The most commands the model registers.
MaxCmds == 2

\* The syntax strings given to Cmds.Add: plain commands, one whose two
\* alternatives share a prefix, one ambiguous between a variable and a
\* keyword, one that repeats a group matching zero words, one with a parser
\* error and one with a lexer error.
Syntaxes ==
    {"show", "set <n:int>+ | sh", "get <file>* verbose?", "z (y?)* x", "a |", "a!"}

\* The syntax strings given to Cmds.Add when only the parser is exercised.
ParserSyntaxes ==
    {"a | b | c", "a b c", "this a | that b", "a b*", "(a b)+", "a? b",
     "((this ))", "this", "(this)", "(this))", ")", "this**", "this|", "<   ",
     "<var", "<var :", "( word*", "( word   *", "a|()", "a|<", "a|)", "",
     "<var1> <var2:int>", "a!", "a!!b", "x# y!"}

\* The syntax strings given to Cmds.Add when registration and compilation
\* alone are exercised; the empty string is one of them.
CompileSyntaxes == {"", "show", "a b*", "a | b", "<v> c?", "(a b)+", "| a", "a | | b", "()"}

\* The callbacks given to Cmds.Add.
Callbacks == {"cb1", "cb2"}

\* The input strings given to Cmds.Parse.
Inputs == {"", "show", "show something", "s", "Show", "set 1 2", "get v", "z"}

\* The syntaxes and the input strings of the runs that look at the words
\* cmdScanner.Scan hands to the VM.
ScanSyntaxes == {"<w>*"}

ScanInputs == {"", "word", "   word \t", "this is a test",
               " this    is \t\n a   test  ", "  ", " \t\n",
               "what \"is this thing\"", "\"is this thing\" this \"thing\"",
               "a\"b c\"", "\"\"", "\"ab", "\"a b\"c", "x \" y \" z"}

\* The syntaxes, the input strings and the names of the runs that look at
\* Match.Var.
VarSyntaxes == {"add <n:int>*", "set <n:int> <m>? <n>"}

VarInputs == {"a 1 2 3", "add", "set 1 2", "s 1 x 2", "set"}

VarNames == {"n", "m", "add", "q"}

\* The syntaxes, the input strings and the names of the runs that look at
\* Match.KeywordPresent.
KeywordSyntaxes == {"info things?", "drop <info>"}

KeywordInputs == {"in t", "info", "i", "info things", "d info", "drop x", "x"}

KeywordNames == {"info", "things", "drop", "t", "in"}

\* The syntaxes and the input strings of the runs that look at
\* Cmds.LongestMatches.
LongestSyntaxes == {"show", "set <n:int>+ | sh"}

LongestInputs == {"show something", "s", "zzz", "set", "set 1", ""}

\* The trees given to compiler.compile directly: every tree of at most two
\* levels of nodes over three leaves, the trees of the compiler's examples,
\* and some deeper trees the parser makes.
AstLeaves == {word("a"), word("b"), variable("v", "str")}

AstGrow(S) ==
    S \cup {alts(l, r) : l \in S, r \in S}
      \cup {terms(l, r) : l \in S, r \in S}
      \cup {rep(op, t) : op \in {"repeatZeroOrMore", "repeatOneOrMore", "repeatZeroOrOne"},
                         t \in S}
      \cup {meta(cb, t) : cb \in Callbacks, t \in S}

AstSyntaxes == {"(do (thing|<v>)) | (add <n:int>*) | (clear logs?)",
                "show results (source (scheduled | unscheduled | all))? detail?",
                "((a | b)* c)+ <x:int>?"}

Asts ==
    AstGrow(AstGrow(AstLeaves))
      \cup {alts(word("this"), word("that")), rep("repeatOneOrMore", word("a")),
            alts(word("this"), alts(word("that"), word("other")))}
      \cup {scanAndParse(syn).tree : syn \in AstSyntaxes}

\* The inputs of TestParser, and the token sequences of at most MaxTokens
\* tokens written as strings: a word, or one of the nine punctuation marks.
TestParserInputs ==
    {"", "show", "show  this", "do this*", "this | that", "this | that | other",
     "this a | that b", "this? that* <myValue:int>", "(this that)", "(this that)*",
     "((this ))", "<var1> <var2:int>", "word+word2", "get (<v>|all)", "this**",
     "this|", "<   ", "<var", "<var :", "( word*", "( word   *"}

MaxTokens == 4

TokenTexts == {"a ", "<", ">", "|", "*", "+", "?", "(", ")", ":"}

RECURSIVE TokenStrings(_)
TokenStrings(n) ==
    IF n = 0 THEN {""}
    ELSE TokenStrings(n - 1)
           \cup {str \o t : str \in TokenStrings(n - 1), t \in TokenTexts}

\* TestParser's limit on the calls of parser.match.
TestMatchLimit == 100

\* The contexts given to Cmds.Parse.
Ctxs == {"ctx1", "ctx2"}

(***************************************************************************)
(* State                                                                    *)
(***************************************************************************)

VARIABLES
    parseTree,   \* Cmds.parseTree
    prog,        \* Cmds.prog
    trace,       \* Cmds.trace: whether a trace writer is set
    pcState,     \* "idle", "execute" (inside Parse, in vm.execute),
                 \* "executed" (inside Parse, vm.execute returned), "panicked"
    v,           \* the vm of the Parse call in progress
    ctx,         \* the ctx argument of the Parse call in progress
    ret,         \* the last call and what it returned
    cbackCalls   \* the callback invocations of the last Parse call

vars == <<parseTree, prog, trace, pcState, v, ctx, ret, cbackCalls>>

noRet == [op |-> "none", cmd |-> "", err |-> <<>>, ok |-> FALSE]

Init ==
    /\ parseTree = NilTree
    /\ prog = <<>>
    /\ trace = FALSE
    /\ pcState = "idle"
    /\ v = zeroVm
    /\ ctx = "nil"
    /\ ret = noRet
    /\ cbackCalls = <<>>

(***************************************************************************)
(* Actions                                                                  *)
(***************************************************************************)

\* Cmds.Add that registers the tree whether or not scanAndParse failed.
AddRegistersAnyway(cmd, cback) ==
    /\ pcState = "idle"
    /\ NumCmds(parseTree) < MaxCmds
    /\ LET result(r) ==
               /\ parseTree' = addParseTree(parseTree, r.tree, cback)
               /\ ret' = [op |-> "Add", cmd |-> cmd, err |-> r.err, ok |-> FALSE]
       IN result(scanAndParse(cmd))
    /\ UNCHANGED <<prog, trace, pcState, v, ctx, cbackCalls>>

\* Cmds.Add that compiles the program anew after registering.
AddCompiles(cmd, cback) ==
    /\ pcState = "idle"
    /\ NumCmds(parseTree) < MaxCmds
    /\ LET result(r) ==
               /\ parseTree' = IF r.err # <<>> THEN parseTree
                               ELSE addParseTree(parseTree, r.tree, cback)
               /\ ret' = [op |-> "Add", cmd |-> cmd, err |-> r.err, ok |-> FALSE]
       IN result(scanAndParse(cmd))
    /\ prog' = compile(parseTree').prog
    /\ UNCHANGED <<trace, pcState, v, ctx, cbackCalls>>

\* Cmds.Add(cmd, cback)
Add(cmd, cback) ==
    /\ pcState = "idle"
    /\ NumCmds(parseTree) < MaxCmds
    /\ LET result(r) ==
               /\ parseTree' = IF r.err # <<>> THEN parseTree
                               ELSE addParseTree(parseTree, r.tree, cback)
               /\ ret' = [op |-> "Add", cmd |-> cmd, err |-> r.err, ok |-> FALSE]
       IN result(scanAndParse(cmd))
    /\ UNCHANGED <<prog, trace, pcState, v, ctx, cbackCalls>>

\* Cmds.Compile()
Compile ==
    /\ pcState = "idle"
    /\ LET result(r) ==
               /\ prog' = IF r.panic THEN prog ELSE r.prog
               /\ pcState' = IF r.panic THEN "panicked" ELSE "idle"
       IN result(compile(parseTree))
    /\ ret' = [op |-> "Compile", cmd |-> "", err |-> <<>>, ok |-> FALSE]
    /\ UNCHANGED <<parseTree, trace, v, ctx, cbackCalls>>

\* Cmds.TraceExecutionTo(w)
TraceExecutionTo(w) ==
    /\ pcState = "idle"
    /\ trace' = w
    /\ ret' = [op |-> "TraceExecutionTo", cmd |-> "", err |-> <<>>, ok |-> FALSE]
    /\ UNCHANGED <<parseTree, prog, pcState, v, ctx, cbackCalls>>

\* Cmds.Parse(cmd, c): from the call to the head of the first processWord.
ParseBegin(cmd, c) ==
    /\ pcState = "idle"
    /\ v' = executeBegin([zeroVm EXCEPT !.traceWriter = trace], prog, cmdScan(cmd))
    /\ ctx' = c
    /\ pcState' = "execute"
    /\ ret' = [op |-> "Parse", cmd |-> cmd, err |-> <<>>, ok |-> FALSE]
    /\ cbackCalls' = <<>>
    /\ UNCHANGED <<parseTree, prog, trace>>

\* One iteration of the loop of vm.processWord: vm.continu on one thread.
\* The program's backing array is shared between Cmds.prog and v.prog.
VmContinue ==
    /\ pcState = "execute"
    /\ ~executeReturned(v)
    /\ v.currentThreads # <<>>
    /\ IF tracePanics(v)
       THEN /\ pcState' = "panicked"
            /\ UNCHANGED <<v, prog>>
       ELSE /\ v' = processWordStep(v)
            /\ prog' = v'.prog
            /\ UNCHANGED pcState
    /\ UNCHANGED <<parseTree, trace, ctx, ret, cbackCalls>>

\* The end of one processWord call and the head of the next one, or the
\* return of vm.execute after the last.
VmProcessWordEnd ==
    /\ pcState = "execute"
    /\ v.currentThreads = <<>>
    /\ v' = processWordEnd(v)
    /\ pcState' = IF executeReturned(v') THEN "executed" ELSE "execute"
    /\ UNCHANGED <<parseTree, prog, trace, ctx, ret, cbackCalls>>

\* Cmds.Parse after vm.execute that dispatches the first maximal match when
\* there are several.
ParseReturnFirst ==
    /\ pcState = "executed"
    /\ LET dispatch(mm) ==
               IF Len(mm) < 1
               THEN /\ ret' = [ret EXCEPT !.ok = FALSE]
                    /\ pcState' = "idle"
                    /\ UNCHANGED cbackCalls
               ELSE IF mm[1].meta = "nil"
               THEN /\ pcState' = "panicked"
                    /\ UNCHANGED <<ret, cbackCalls>>
               ELSE /\ cbackCalls' =
                           Append(cbackCalls,
                                  [cback |-> mm[1].meta, match |-> mm[1], ctx |-> ctx])
                    /\ ret' = [ret EXCEPT !.ok = TRUE]
                    /\ pcState' = "idle"
       IN dispatch(maximalMatches(v))
    /\ v' = zeroVm
    /\ ctx' = "nil"
    /\ UNCHANGED <<parseTree, prog, trace>>

\* Cmds.Parse after vm.execute: the dispatch and the return.  A meta that is
\* no Callback (nil) fails the type assertion.
ParseReturn ==
    /\ pcState = "executed"
    /\ LET dispatch(mm) ==
               IF Len(mm) # 1
               THEN /\ ret' = [ret EXCEPT !.ok = FALSE]
                    /\ pcState' = "idle"
                    /\ UNCHANGED cbackCalls
               ELSE IF mm[1].meta = "nil"
               THEN /\ pcState' = "panicked"
                    /\ UNCHANGED <<ret, cbackCalls>>
               ELSE /\ cbackCalls' =
                           Append(cbackCalls,
                                  [cback |-> mm[1].meta, match |-> mm[1], ctx |-> ctx])
                    /\ ret' = [ret EXCEPT !.ok = TRUE]
                    /\ pcState' = "idle"
       IN dispatch(maximalMatches(v))
    /\ v' = zeroVm
    /\ ctx' = "nil"
    /\ UNCHANGED <<parseTree, prog, trace>>

\* Match.Var(name) called by the callback on the match Parse handed to it.
\* ret keeps the input of that Parse in cmd.
MatchVar(name) ==
    /\ pcState = "idle"
    /\ ret.op \in {"Parse", "Var"}
    /\ ret.ok
    /\ cbackCalls # <<>>
    /\ ret' = [op |-> "Var", cmd |-> ret.cmd, err |-> <<>>, ok |-> TRUE,
               name |-> name,
               value |-> cmdMatchVar(cbackCalls[Len(cbackCalls)].match, name)]
    /\ UNCHANGED <<parseTree, prog, trace, pcState, v, ctx, cbackCalls>>

\* Match.KeywordPresent(name) called by the callback on the match Parse
\* handed to it.  ret keeps the input of that Parse in cmd.
MatchKeywordPresent(name) ==
    /\ pcState = "idle"
    /\ ret.op \in {"Parse", "KeywordPresent"}
    /\ ret.ok
    /\ cbackCalls # <<>>
    /\ ret' = [op |-> "KeywordPresent", cmd |-> ret.cmd, err |-> <<>>, ok |-> TRUE,
               name |-> name,
               present |-> cmdMatchKeywordPresent(cbackCalls[Len(cbackCalls)].match, name)]
    /\ UNCHANGED <<parseTree, prog, trace, pcState, v, ctx, cbackCalls>>

\* Cmds.LongestMatches called after a Parse that returned false.  The method
\* has an empty body and no result: value, what the caller is given, holds
\* no match.  ret keeps the input of that Parse in cmd.
LongestMatches ==
    /\ pcState = "idle"
    /\ ret.op = "Parse"
    /\ ~ret.ok
    /\ ret' = [op |-> "LongestMatches", cmd |-> ret.cmd, err |-> <<>>, ok |-> FALSE,
               value |-> <<>>]
    /\ UNCHANGED <<parseTree, prog, trace, pcState, v, ctx, cbackCalls>>

\* One case of TestParser: the input is scanned and parsed with the limit
\* on the calls of match set; a call of match past the limit aborts.  ret
\* holds the number of tokens and the calls of match counted.
TestParser(cmd) ==
    /\ pcState = "idle"
    /\ LET parsed(toks, r) ==
               /\ ret' = [op |-> "TestParser", cmd |-> cmd, err |-> r.err,
                          ok |-> r.err = <<>>, tokens |-> Len(toks),
                          matchCalls |-> r.matchCalls]
               /\ pcState' = IF r.matchCalls > TestMatchLimit THEN "panicked" ELSE "idle"
           scanned(s) ==
               IF ~s.ok
               THEN /\ ret' = [op |-> "TestParser", cmd |-> cmd, err |-> s.errs,
                               ok |-> FALSE, tokens |-> 0, matchCalls |-> 0]
                    /\ pcState' = "idle"
               ELSE parsed(s.tokens, ParserParse(s.tokens, TestMatchLimit))
       IN scanned(Scan(cmd))
    /\ UNCHANGED <<parseTree, prog, trace, v, ctx, cbackCalls>>

Next ==
    \/ \E cmd \in Syntaxes, cback \in Callbacks : Add(cmd, cback)
    \/ Compile
    \/ \E w \in BOOLEAN : TraceExecutionTo(w)
    \/ \E cmd \in Inputs, c \in Ctxs : ParseBegin(cmd, c)
    \/ VmContinue
    \/ VmProcessWordEnd
    \/ ParseReturn

Spec == Init /\ [][Next]_vars

\* A call of Parse in progress keeps running: the steps of vm.execute and the
\* return of Parse are taken when they can be.
LiveSpec ==
    /\ Init
    /\ [][Next]_vars
    /\ WF_vars(VmContinue)
    /\ WF_vars(VmProcessWordEnd)
    /\ WF_vars(ParseReturn)

\* Only Cmds.Add is called, on the syntax strings that exercise the parser.
ParserNext == \E cmd \in ParserSyntaxes, cback \in Callbacks : Add(cmd, cback)

ParserSpec == Init /\ [][ParserNext]_vars

\* Only Cmds.Add and Cmds.Compile are called.
CompileNext ==
    \/ \E cmd \in CompileSyntaxes, cback \in Callbacks : Add(cmd, cback)
    \/ Compile

CompileSpec == Init /\ [][CompileNext]_vars

\* Registration of one syntax, then Parse on inputs that exercise the user
\* input scanner.
ScanNext ==
    \/ \E cmd \in ScanSyntaxes, cback \in Callbacks : Add(cmd, cback)
    \/ Compile
    \/ \E cmd \in ScanInputs, c \in Ctxs : ParseBegin(cmd, c)
    \/ VmContinue
    \/ VmProcessWordEnd
    \/ ParseReturn

ScanSpec == Init /\ [][ScanNext]_vars

\* Registration, Parse, and the callback's calls of Match.Var.
VarNext ==
    \/ \E cmd \in VarSyntaxes, cback \in Callbacks : Add(cmd, cback)
    \/ Compile
    \/ \E cmd \in VarInputs, c \in Ctxs : ParseBegin(cmd, c)
    \/ VmContinue
    \/ VmProcessWordEnd
    \/ ParseReturn
    \/ \E name \in VarNames : MatchVar(name)

VarSpec == Init /\ [][VarNext]_vars

\* Registration, Parse, and the callback's calls of Match.KeywordPresent.
KeywordNext ==
    \/ \E cmd \in KeywordSyntaxes, cback \in Callbacks : Add(cmd, cback)
    \/ Compile
    \/ \E cmd \in KeywordInputs, c \in Ctxs : ParseBegin(cmd, c)
    \/ VmContinue
    \/ VmProcessWordEnd
    \/ ParseReturn
    \/ \E name \in KeywordNames : MatchKeywordPresent(name)

KeywordSpec == Init /\ [][KeywordNext]_vars

\* The parser under its test driver, on the tests' inputs and on every
\* short token sequence.  Each case runs on a scanner and a parser of its
\* own: the cases are taken from the initial state.
TestParserNext ==
    /\ ret = noRet
    /\ \E cmd \in TestParserInputs \cup TokenStrings(MaxTokens) : TestParser(cmd)

TestParserSpec == Init /\ [][TestParserNext]_vars

\* compiler.compile applied to a tree given directly, as the compiler's
\* tests do: the tree is in place of Cmds.parseTree when Compile is called.
AstInit ==
    /\ parseTree \in Asts
    /\ prog = <<>>
    /\ trace = FALSE
    /\ pcState = "idle"
    /\ v = zeroVm
    /\ ctx = "nil"
    /\ ret = noRet
    /\ cbackCalls = <<>>

AstNext == Compile

AstSpec == AstInit /\ [][AstNext]_vars

\* Registration, Parse, and LongestMatches after a Parse that failed.
LongestNext ==
    \/ \E cmd \in LongestSyntaxes, cback \in Callbacks : Add(cmd, cback)
    \/ Compile
    \/ \E cmd \in LongestInputs, c \in Ctxs : ParseBegin(cmd, c)
    \/ VmContinue
    \/ VmProcessWordEnd
    \/ ParseReturn
    \/ LongestMatches

LongestSpec == Init /\ [][LongestNext]_vars

(***************************************************************************)
(* What a grammar accepts, read off the parse tree alone: the derivations   *)
(* of a tree on a list of words.  A derivation state is [items, rest,       *)
(* meta]: the items bound so far, the words not yet consumed and the        *)
(* payload of the last meta node entered.                                   *)
(***************************************************************************)

\* w is a prefix of s, rune by rune.
IsPrefixOf(w, s) ==
    /\ Len(w) <= Len(s)
    /\ \A i \in 1..Len(w) : SubSeq(w, i, i) = SubSeq(s, i, i)

keywordItem(name, w) ==
    [kind |-> "keywordValue", Name |-> name, Type |-> "", Value |-> w]

varItem(name, typ, w) ==
    [kind |-> "VarValue", Name |-> name, Type |-> typ, Value |-> w]

consume(st, item) == [st EXCEPT !.items = Append(@, item), !.rest = Tail(@)]

RECURSIVE Derive(_, _), DeriveEach(_, _, _)

\* Every way tree can consume a prefix of st.rest, as the states reached.
Derive(tree, st) ==
    CASE tree.type = "word" ->
            IF st.rest # <<>> /\ IsPrefixOf(Head(st.rest), tree.s)
            THEN <<consume(st, keywordItem(tree.s, Head(st.rest)))>>
            ELSE <<>>
      [] tree.type = "variable" ->
            IF st.rest # <<>>
            THEN <<consume(st, varItem(tree.Name, tree.Type, Head(st.rest)))>>
            ELSE <<>>
      [] tree.type = "terms" -> DeriveEach(tree.Right, Derive(tree.Left, st), 1)
      [] tree.type = "alts" -> Derive(tree.Left, st) \o Derive(tree.Right, st)
      [] tree.type = "meta" -> Derive(tree.ch, [st EXCEPT !.meta = tree.data])
      [] tree.type = "rep" /\ tree.Op = "repeatZeroOrOne" ->
            Derive(tree.Term, st) \o <<st>>
      [] tree.type = "rep" /\ tree.Op = "repeatZeroOrMore" ->
            <<st>> \o DeriveEach(tree, Derive(tree.Term, st), 1)
      [] tree.type = "rep" /\ tree.Op = "repeatOneOrMore" ->
            DeriveEach(rep("repeatZeroOrMore", tree.Term), Derive(tree.Term, st), 1)
      [] OTHER -> <<>>

\* The derivations of tree from each of the states sts[k..].
DeriveEach(tree, sts, k) ==
    IF k > Len(sts) THEN <<>>
    ELSE Derive(tree, sts[k]) \o DeriveEach(tree, sts, k + 1)

derivedMatch(st) == [items |-> st.items, meta |-> st.meta]

\* The matches of tree on the prefixes of input: one per derivation.
AllDerived(tree, input) ==
    LET asMatches(ds) == [k \in 1..Len(ds) |-> derivedMatch(ds[k])]
    IN asMatches(Derive(tree, [items |-> <<>>, rest |-> input, meta |-> "nil"]))

\* The number of times x occurs in seq.
CountIn(seq, x) == Cardinality({k \in 1..Len(seq) : seq[k] = x})

\* a and b hold the same elements the same number of times.
SameBag(a, b) ==
    /\ Len(a) = Len(b)
    /\ \A k \in 1..Len(a) : CountIn(a, a[k]) = CountIn(b, a[k])

\* The largest item count among the matches ms, 0 when there is none.
MaxItems(ms) ==
    IF ms = <<>> THEN 0
    ELSE CHOOSE n \in {Len(ms[k].items) : k \in 1..Len(ms)} :
             \A j \in 1..Len(ms) : Len(ms[j].items) <= n

\* The matches of ms with n items, in the order of ms.
WithItems(ms, n) ==
    LET has(m) == Len(m.items) = n IN SelectSeq(ms, has)

\* The program is the one Compile makes of the commands registered now.
Fresh ==
    LET same(r) == ~r.panic /\ prog = r.prog IN same(compile(parseTree))

\* The commands registered, last registered first: [cback, tree].
RECURSIVE CmdList(_)
CmdList(tree) ==
    CASE tree.type = "alts" ->
            <<[cback |-> tree.Left.data, tree |-> tree.Left.ch]>> \o CmdList(tree.Right)
      [] tree.type = "meta" -> <<[cback |-> tree.data, tree |-> tree.ch]>>
      [] OTHER -> <<>>

(***************************************************************************)
(* Properties                                                               *)
(***************************************************************************)

\* C1: Cmds.Parse returns true if and only if the run left exactly one
\* match that covers the whole input; it then has invoked that match's
\* callback exactly once, with the match and the caller's ctx; with no such
\* match or several it returns false and has invoked no callback.
C1_ParseTrueIffOneMaximalMatch ==
    [][(pcState = "executed" /\ pcState' # "executed") =>
         LET outcome(mm) ==
                 /\ pcState' = "idle"
                 /\ ret'.op = "Parse"
                 /\ ret'.ok <=> Len(mm) = 1
                 /\ Len(mm) = 1 =>
                        /\ mm[1].meta \in Callbacks
                        /\ cbackCalls' =
                               <<[cback |-> mm[1].meta, match |-> mm[1], ctx |-> ctx]>>
                 /\ Len(mm) # 1 => cbackCalls' = <<>>
         IN outcome(WithItems(v.matches, Len(v.input)))]_vars

\* C1 witness: a Parse call returned true after one callback invocation
\* with the caller's ctx.
C1_Witness ==
    /\ pcState = "idle"
    /\ ret.op = "Parse"
    /\ ret.ok
    /\ Len(cbackCalls) = 1
    /\ cbackCalls[1].ctx = "ctx2"
    /\ cbackCalls[1].cback = "cb2"
    /\ Len(cbackCalls[1].match.items) = 3

\* C2: once vm.execute has started it returns (or the call aborts).
C2_ExecuteTerminates ==
    (pcState = "execute") ~> (pcState \in {"executed", "panicked"})

\* C3: the match set holds one match for every derivation of a prefix of
\* the input, however many threads reach MATCH in one step, and
\* longestMatches returns one match for every longest derivation.
C3_OneMatchPerAcceptingPath ==
    (pcState = "executed" /\ Fresh) =>
        /\ SameBag(v.matches, AllDerived(parseTree, v.input))
        /\ SameBag(longestMatches(v),
                   WithItems(AllDerived(parseTree, v.input),
                             MaxItems(AllDerived(parseTree, v.input))))

\* C3 witness: "get <file>* verbose?" on "get v" left two longest matches,
\* one binding v to the variable and one to the keyword.
C3_Witness ==
    /\ pcState = "executed"
    /\ Fresh
    /\ NumCmds(parseTree) = 1
    /\ v.input = <<"get", "v">>
    /\ Len(longestMatches(v)) = 2
    /\ {longestMatches(v)[k].items[2].Name : k \in 1..2} = {"file", "verbose"}
    /\ \A k \in 1..2 : longestMatches(v)[k].items[2].Value = "v"

\* C4: maximalMatches is longestMatches when the longest match has as many
\* items as the input has words, and empty otherwise.
C4_MaximalOnlyWhenWholeInput ==
    /\ maximalMatches(v) # <<>> =>
           /\ MaxItems(v.matches) = Len(v.input)
           /\ maximalMatches(v) = longestMatches(v)
           /\ \A k \in 1..Len(maximalMatches(v)) :
                  Len(maximalMatches(v)[k].items) = Len(v.input)
    /\ (v.matches # <<>> /\ MaxItems(v.matches) = Len(v.input)) =>
           maximalMatches(v) = longestMatches(v)
    /\ MaxItems(v.matches) # Len(v.input) => maximalMatches(v) = <<>>
    /\ v.matches = <<>> => maximalMatches(v) = <<>>

\* C4 witness: "show something" against "show" left a match, and no maximal
\* match.
C4_Witness ==
    /\ pcState = "executed"
    /\ v.input = <<"show", "something">>
    /\ v.matches # <<>>
    /\ longestMatches(v) # <<>>
    /\ maximalMatches(v) = <<>>

\* C5: longestMatches is the recorded matches with the largest item count,
\* ties included, in the order recorded; empty when nothing was recorded.
C5_LongestMatchesStableFilter ==
    longestMatches(v) =
        IF v.matches = <<>> THEN <<>>
        ELSE WithItems(v.matches, MaxItems(v.matches))

\* C5 witness: a shorter match was recorded before two different longest
\* ones, and both are returned in the order recorded.
C5_Witness ==
    /\ Len(v.matches) = 3
    /\ Len(v.matches[1].items) < Len(v.matches[2].items)
    /\ v.matches[2] # v.matches[3]
    /\ longestMatches(v) = <<v.matches[2], v.matches[3]>>

\* The word of the processWord call in progress, when it has one.
HasWord == v.pass < Len(v.input)

\* C6: a thread at CMP s is accepted if and only if the call has a word and
\* the word is a prefix of s; it then goes to the next list with the word
\* bound and its pc advanced by one; otherwise it is dropped; no match is
\* recorded either way.
C6_CmpAcceptsPrefixesOnly ==
    [][(/\ pcState = "execute"
        /\ pcState' = "execute"
        /\ v.currentThreads # <<>>
        /\ v.prog[Head(v.currentThreads).pc + 1].opcode = "opCmp") =>
         LET step(t, s) ==
                 /\ v'.currentThreads = Tail(v.currentThreads)
                 /\ v'.matches = v.matches
                 /\ v'.nextThreads =
                        IF HasWord /\ IsPrefixOf(v.input[v.pass + 1], s)
                        THEN Append(v.nextThreads,
                                    [pc |-> t.pc + 1,
                                     items |-> Append(t.items,
                                                      [instr |-> t.pc,
                                                       val |-> v.input[v.pass + 1]]),
                                     meta |-> t.meta])
                        ELSE v.nextThreads
         IN step(Head(v.currentThreads),
                 v.prog[Head(v.currentThreads).pc + 1].strs[1])]_vars

\* C6 witness: the word "s" was accepted for the keyword "show": the last
\* thread of the next list bound it at a CMP and stands one past it.
C6_Witness ==
    /\ pcState = "execute"
    /\ v.nextThreads # <<>>
    /\ LET bound(t) ==
               /\ t.items # <<>>
               /\ t.items[Len(t.items)].val = "s"
               /\ v.prog[t.items[Len(t.items)].instr + 1].opcode = "opCmp"
               /\ v.prog[t.items[Len(t.items)].instr + 1].strs[1] = "show"
               /\ t.pc = t.items[Len(t.items)].instr + 1
       IN bound(v.nextThreads[Len(v.nextThreads)])

\* The derivation of a command that match m records: the command's callback
\* is m's meta and its tree derives m's items on a prefix of the input.
MatchedBy(cmd, m, input) ==
    /\ m.meta = cmd.cback
    /\ \E k \in 1..Len(AllDerived(cmd.tree, input)) :
           AllDerived(cmd.tree, input)[k].items = m.items

\* C7: a thread whose meta register is unset has bound nothing and stands
\* at a SPLIT or a META, never at a CMP, SAVE, MATCH or JMP; every match
\* recorded carries a callback, and under the program of the registered
\* commands it is the callback of a command whose syntax derives the items.
C7_MatchCarriesItsCommandsCallback ==
    /\ \A l \in {v.currentThreads, v.nextThreads} : \A k \in 1..Len(l) :
           l[k].meta = "nil" =>
               /\ l[k].items = <<>>
               /\ v.prog[l[k].pc + 1].opcode \in {"opSplit", "opMeta"}
    /\ \A k \in 1..Len(v.matches) : v.matches[k].meta \in Callbacks
    /\ (v.matches # <<>> /\ Fresh) =>
           \A k \in 1..Len(v.matches) :
               \E j \in 1..Len(CmdList(parseTree)) :
                   MatchedBy(CmdList(parseTree)[j], v.matches[k], v.input)

\* C7 witness: with "show" registered for cb1 and "set <n:int>+ | sh" for
\* cb2, the input "s" left one match for each callback.
C7_Witness ==
    /\ pcState = "executed"
    /\ Fresh
    /\ v.input = <<"s">>
    /\ Len(CmdList(parseTree)) = 2
    /\ CmdList(parseTree)[1].cback # CmdList(parseTree)[2].cback
    /\ {v.matches[k].meta : k \in 1..Len(v.matches)} = {"cb1", "cb2"}
    /\ \A k \in 1..Len(v.matches) :
           \E j \in 1..2 : MatchedBy(CmdList(parseTree)[j], v.matches[k], v.input)

\* The syntax strings of the model that Cmds.Add must reject.
Malformed == {"a |", "a!"}

\* C8: Add on a malformed syntax returns an error, and an Add that returns
\* an error leaves the parse tree as it was.
C8_FailedAddRegistersNothing ==
    [][ret'.op = "Add" =>
          /\ ret'.cmd \in Malformed => ret'.err # <<>>
          /\ ret'.err # <<>> => parseTree' = parseTree]_vars

\* C8 witness: an Add returned an error with one command registered before
\* it, and that command is still the only one.
C8_Witness ==
    /\ ret.op = "Add"
    /\ ret.cmd = "a |"
    /\ ret.err # <<>>
    /\ parseTree = meta("cb1", word("show"))

\* The bijections of 1..n.
Perms(n) == {f \in [1..n -> 1..n] : \A i, j \in 1..n : f[i] = f[j] => i = j}

\* The parse tree after Add of the commands cmds[f[1]], cmds[f[2]], ... in
\* that order, the first k of them.
RECURSIVE Registered(_, _, _)
Registered(cmds, f, k) ==
    IF k = 0 THEN NilTree
    ELSE addParseTree(Registered(cmds, f, k - 1), cmds[f[k]].tree, cmds[f[k]].cback)

\* The maximal matches of input under the program compiled for the commands
\* cmds registered in the order f.
MaximalInOrder(cmds, f, input) ==
    maximalMatches(execute(zeroVm, compile(Registered(cmds, f, Len(cmds))).prog,
                           input))

\* C9: registering the same commands in any other order gives, for the
\* input of the run, the same maximal matches (items and callback), hence
\* the same Parse result and the same callback dispatched.
C9_AddOrderIrrelevant ==
    (pcState = "executed" /\ Fresh) =>
        \A f \in Perms(Len(CmdList(parseTree))) :
            /\ SameBag(maximalMatches(v),
                       MaximalInOrder(CmdList(parseTree), f, v.input))
            /\ Len(maximalMatches(v)) = 1 =>
                   MaximalInOrder(CmdList(parseTree), f, v.input) = maximalMatches(v)

\* C9 witness: two different commands are registered, the input matches
\* the one registered first, and the other order compiles to another
\* program.
C9_Witness ==
    /\ pcState = "executed"
    /\ Fresh
    /\ Len(CmdList(parseTree)) = 2
    /\ CmdList(parseTree)[1].tree # CmdList(parseTree)[2].tree
    /\ Len(maximalMatches(v)) = 1
    /\ maximalMatches(v)[1].meta = CmdList(parseTree)[2].cback
    /\ maximalMatches(v)[1].meta # CmdList(parseTree)[1].cback
    /\ compile(Registered(CmdList(parseTree), <<1, 2>>, 2)).prog # prog
    /\ compile(Registered(CmdList(parseTree), <<2, 1>>, 2)).prog = prog

\* The tree of the command registered last.
LastAdded ==
    IF parseTree.type = "alts" THEN parseTree.Left.ch ELSE parseTree.ch

\* Add(cmd) succeeded and registered tree.
ParsedAs(cmd, tree) ==
    (ret.op = "Add" /\ ret.cmd = cmd) => (ret.err = <<>> /\ LastAdded = tree)

\* C10: alternatives and concatenations nest to the right, | binds loosest,
\* a repetition operator applies to the one group or term before it, and
\* parentheses add no node.
C10_ParserAssociativityAndPrecedence ==
    /\ ParsedAs("a | b | c", alts(word("a"), alts(word("b"), word("c"))))
    /\ ParsedAs("a b c", terms(word("a"), terms(word("b"), word("c"))))
    /\ ParsedAs("this a | that b",
                alts(terms(word("this"), word("a")), terms(word("that"), word("b"))))
    /\ ParsedAs("a b*", terms(word("a"), rep("repeatZeroOrMore", word("b"))))
    /\ ParsedAs("(a b)+", rep("repeatOneOrMore", terms(word("a"), word("b"))))
    /\ ParsedAs("a? b", terms(rep("repeatZeroOrOne", word("a")), word("b")))
    /\ ParsedAs("((this ))", word("this"))
    /\ ParsedAs("this", word("this"))

\* C10 witness: "a | b | c" was registered as Alts(a, Alts(b, c)).
C10_Witness ==
    /\ ret.op = "Add"
    /\ ret.cmd = "a | b | c"
    /\ ret.err = <<>>
    /\ LastAdded = alts(word("a"), alts(word("b"), word("c")))

\* Add(cmd) failed with exactly the diagnostics errs.
FailsWith(cmd, errs) ==
    (ret.op = "Add" /\ ret.cmd = cmd) => ret.err = errs

\* C11 as stated: "(this))" parses without error to the tree of "this".
C11_UnbalancedParenAccepted == ParsedAs("(this))", word("this"))

\* C11, amended: "(this))" is rejected, the surplus ) being reported as
\* extra tokens at character 7; with balanced parentheses, "(this)" and
\* "((this ))", the tree is that of "this".
C11_UnbalancedParenRejected ==
    /\ FailsWith("(this))", <<"At character 7: extra tokens after end of command">>)
    /\ ParsedAs("(this)", word("this"))
    /\ (ret.op = "Add" /\ ret.cmd = "((this ))") =>
           (ret.err = <<>> /\ LastAdded = scanAndParse("this").tree)

\* C11 witness: Add("(this))") returned the extra-tokens error.
C11_Witness ==
    /\ ret.op = "Add"
    /\ ret.cmd = "(this))"
    /\ ret.err = <<"At character 7: extra tokens after end of command">>
    /\ parseTree = NilTree

\* Add(cmd) recorded the diagnostic msg, placed one past the text consumed
\* (the part of cmd up to the end of the last token consumed when the
\* diagnostic was recorded; empty when no token was consumed).
DiagnosedAfter(cmd, consumed, msg) ==
    (ret.op = "Add" /\ ret.cmd = cmd) =>
        \E i \in 1..Len(ret.err) :
            ret.err[i] = "At character " \o ToString(Len(consumed) + 1) \o ": " \o msg

\* C12: every parser diagnostic is prefixed "At character K: " with K the
\* 1-based position following the last token consumed, and 1 when no token
\* was consumed.
C12_DiagnosticPosition ==
    /\ DiagnosedAfter("this**", "this*", "extra tokens after end of command")
    /\ DiagnosedAfter("this|", "this|", "expected more tokens after the |")
    /\ DiagnosedAfter("<   ", "<", "expected variable name after <")
    /\ DiagnosedAfter("<var :", "<var :", "expected variable type after :")
    /\ DiagnosedAfter("( word   *", "( word   *", "expected ) to close the group")
    /\ DiagnosedAfter("(this))", "(this)", "extra tokens after end of command")
    /\ DiagnosedAfter(")", "", "extra tokens after end of command")

\* The parser after parser.Command on the tokens of cmd.
AfterCommand(cmd) == Command(newParser(Scan(cmd).tokens, 0)).p

\* The last diagnostic of the last call.
LastErr == ret.err[Len(ret.err)]

\* errs ends with a diagnostic of the form "At character K: " msg.
EndsWith(str, suffix) ==
    /\ Len(suffix) <= Len(str)
    /\ SubSeq(str, Len(str) - Len(suffix) + 1, Len(str)) = suffix

\* C13: Add of a syntax the lexer accepts returns no error only if
\* parser.Command consumed every token; when tokens remain, the last
\* diagnostic is "extra tokens after end of command" and nothing is
\* registered by the call.
C13_LeftoverTokensFail ==
    (ret.op = "Add" /\ Scan(ret.cmd).ok) =>
        /\ ret.err = <<>> => atEnd(AfterCommand(ret.cmd))
        /\ ~atEnd(AfterCommand(ret.cmd)) =>
               /\ ret.err # <<>>
               /\ EndsWith(LastErr, ": extra tokens after end of command")
               /\ SubSeq(LastErr, 1, 13) = "At character "

\* C13 witness: "this**" left a * after the command and failed.
C13_Witness ==
    /\ ret.op = "Add"
    /\ ret.cmd = "this**"
    /\ ~atEnd(AfterCommand("this**"))
    /\ ret.err = <<"At character 6: extra tokens after end of command">>

\* C14 as stated: whenever a | is consumed and nothing parses to its
\* right, the diagnostic "expected more tokens after the |" is placed just
\* after the |.
C14_MissingOperandDiagnosedAfterPipe ==
    /\ DiagnosedAfter("this|", "this|", "expected more tokens after the |")
    /\ DiagnosedAfter("a|)", "a|", "expected more tokens after the |")
    /\ DiagnosedAfter("a|()", "a|", "expected more tokens after the |")
    /\ DiagnosedAfter("a|<", "a|", "expected more tokens after the |")

\* C14, amended: the diagnostic is recorded whenever nothing parses to the
\* right of a consumed |; it is placed just after the | when the right side
\* consumed no token (end of input, a token that starts neither a term nor
\* a group), and past the tokens the right side consumed otherwise.
C14_MissingOperandDiagnosed ==
    /\ DiagnosedAfter("this|", "this|", "expected more tokens after the |")
    /\ DiagnosedAfter("a|)", "a|", "expected more tokens after the |")
    /\ DiagnosedAfter("a|()", "a|()", "expected more tokens after the |")
    /\ DiagnosedAfter("a|<", "a|<", "expected more tokens after the |")
    /\ (ret.op = "Add" /\ ret.cmd \in {"this|", "a|)", "a|()", "a|<"}) =>
           Cardinality({i \in 1..Len(ret.err) :
                          EndsWith(ret.err[i], ": expected more tokens after the |")}) = 1

\* C14 witness: "a|()" failed with the diagnostic placed after the ).
C14_Witness ==
    /\ ret.op = "Add"
    /\ ret.cmd = "a|()"
    /\ ret.err = <<"At character 5: expected more tokens after the |">>

\* C15: the empty syntax parses to a nil tree without error; Compile with
\* nothing registered leaves an empty program and returns; Compile with the
\* empty syntax registered returns too.
C15_NilTreeTolerated ==
    /\ (ret.op = "Add" /\ ret.cmd = "") => (ret.err = <<>> /\ LastAdded = NilTree)
    /\ (ret.op = "Compile" /\ parseTree = NilTree) =>
           (pcState = "idle" /\ prog = <<>>)
    /\ ret.op = "Compile" => pcState # "panicked"

\* The <<name, type>> pairs of the variables of a parse tree.
RECURSIVE VarsOf(_)
VarsOf(tree) ==
    CASE tree.type = "variable" -> {<<tree.Name, tree.Type>>}
      [] tree.type \in {"alts", "terms"} -> VarsOf(tree.Left) \cup VarsOf(tree.Right)
      [] tree.type = "rep" -> VarsOf(tree.Term)
      [] tree.type = "meta" -> VarsOf(tree.ch)
      [] OTHER -> {}

\* The <<name, type>> pairs the SAVE instructions of program pr carry.
SavesOf(pr) ==
    {<<pr[i].strs[1], pr[i].strs[2]>> : i \in {j \in 1..Len(pr) : pr[j].opcode = "opSave"}}

\* The variable items of the matches recorded.
VarItems ==
    UNION {{v.matches[k].items[i] :
               i \in {j \in 1..Len(v.matches[k].items) :
                        v.matches[k].items[j].kind = "VarValue"}} :
           k \in 1..Len(v.matches)}

\* C16: <name> parses to Variable(name, "str") and <name:type> to
\* Variable(name, type); the SAVE instructions of the compiled program
\* carry exactly the names and types of the tree's variables; and every
\* variable item of a match reports the name and type of its SAVE.
C16_VariableNameAndType ==
    /\ ParsedAs("get <file>* verbose?",
                terms(word("get"),
                      terms(rep("repeatZeroOrMore", variable("file", "str")),
                            rep("repeatZeroOrOne", word("verbose")))))
    /\ ParsedAs("set <n:int>+ | sh",
                alts(terms(word("set"), rep("repeatOneOrMore", variable("n", "int"))),
                     word("sh")))
    /\ (pcState = "idle" /\ Fresh) => SavesOf(prog) = VarsOf(parseTree)
    /\ \A it \in VarItems :
           /\ <<it.Name, it.Type>> \in SavesOf(v.prog)
           /\ it.Name = "file" => it.Type = "str"
           /\ it.Name = "n" => it.Type = "int"

\* C16 witness: with both syntaxes compiled, "set 1 2" left a match whose
\* two variable items report n and int.
C16_Witness ==
    /\ pcState = "executed"
    /\ Fresh
    /\ VarsOf(parseTree) = {<<"file", "str">>, <<"n", "int">>}
    /\ v.input = <<"set", "1", "2">>
    /\ \E k \in 1..Len(v.matches) :
           /\ Len(v.matches[k].items) = 3
           /\ \A i \in 2..3 :
                  /\ v.matches[k].items[i].kind = "VarValue"
                  /\ v.matches[k].items[i].Name = "n"
                  /\ v.matches[k].items[i].Type = "int"

\* The nine punctuation characters of the grammar.
PunctRunes == "<>|*+?():"

\* A character the grammar lexer has no use for.
IsInvalidRune(r) ==
    /\ r \notin {" ", "\t", "\n", "\r"}
    /\ ~InString(r, PunctRunes)
    /\ ~InString(r, Letters \o Digits \o "_-")

\* The invalid characters of str from index i (1-based) on, in order.
RECURSIVE InvalidRunes(_, _)
InvalidRunes(str, i) ==
    IF i > Len(str) THEN <<>>
    ELSE IF IsInvalidRune(SubSeq(str, i, i))
    THEN <<SubSeq(str, i, i)>> \o InvalidRunes(str, i + 1)
    ELSE InvalidRunes(str, i + 1)

\* The words among the tokens toks, in order.
WordsOf(toks) ==
    LET isWord(t) == t.typ = "wordTok"
        values(ws) == [k \in 1..Len(ws) |-> ws[k].value]
    IN values(SelectSeq(toks, isWord))

\* C17: Scan's ok is true if and only if it recorded no error; it records
\* one error "Invalid character 'X' encountered" for each invalid character,
\* in order, and goes on scanning after each, so that Add returns exactly
\* these errors and the tokens after an invalid character are still made.
C17_LexerReportsEveryInvalidCharacter ==
    ret.op = "Add" =>
        /\ Scan(ret.cmd).ok <=> Scan(ret.cmd).errs = <<>>
        /\ Scan(ret.cmd).ok <=> InvalidRunes(ret.cmd, 1) = <<>>
        /\ Scan(ret.cmd).errs =
               [k \in 1..Len(InvalidRunes(ret.cmd, 1)) |->
                   "Invalid character '" \o InvalidRunes(ret.cmd, 1)[k] \o "' encountered"]
        /\ ~Scan(ret.cmd).ok => ret.err = Scan(ret.cmd).errs
        /\ ret.cmd = "a!!b" => WordsOf(Scan(ret.cmd).tokens) = <<"a", "b">>
        /\ ret.cmd = "x# y!" => WordsOf(Scan(ret.cmd).tokens) = <<"x", "y">>

\* C17 witness: Add("a!!b") returned two errors, one for each "!".
C17_Witness ==
    /\ ret.op = "Add"
    /\ ret.cmd = "a!!b"
    /\ ret.err = <<"Invalid character '!' encountered",
                   "Invalid character '!' encountered">>

\* A call of Parse has scanned its input: v.input holds the words.
Scanned == ret.op = "Parse" /\ pcState \in {"execute", "executed"}

\* The index of the first character of str at or after i (1-based) that
\* satisfies Stop, or Len(str) + 1.
FirstFrom(str, i, Stop(_)) ==
    LET hits == {j \in i..Len(str) : Stop(SubSeq(str, j, j))}
    IN IF hits = {} THEN Len(str) + 1
       ELSE CHOOSE j \in hits : \A k \in hits : j <= k

IsQuote(r) == r = "\""

NotSpace(r) == ~IsSpace(r)

\* The words of str from index i (1-based) on, segment by segment: a word
\* that begins with a double quote runs to the next double quote, any other
\* word to the next whitespace.
RECURSIVE SplitWords(_, _)
SplitWords(str, i) ==
    LET quoted(b, e) ==
            IF e > Len(str)
            THEN IF b + 1 <= Len(str) THEN <<SubSeq(str, b + 1, Len(str))>> ELSE <<>>
            ELSE <<SubSeq(str, b + 1, e - 1)>> \o SplitWords(str, e + 1)
        plain(b, e) == <<SubSeq(str, b, e - 1)>> \o SplitWords(str, e)
        from(b) ==
            IF b > Len(str) THEN <<>>
            ELSE IF IsQuote(SubSeq(str, b, b))
            THEN quoted(b, FirstFrom(str, b + 1, IsQuote))
            ELSE plain(b, FirstFrom(str, b, IsSpace))
    IN from(FirstFrom(str, i, NotSpace))

\* The positions of the double quotes of str, and the quoted regions they
\* delimit when every double quote opens or closes a region: the first with
\* the second, the third with the fourth, and so on.
QuotePositions(str) == {i \in 1..Len(str) : IsQuote(SubSeq(str, i, i))}

QuotedRegions(str) ==
    LET qs == QuotePositions(str)
        rank(i) == Cardinality({j \in qs : j <= i})
    IN {SubSeq(str, a + 1, b - 1) :
           <<a, b>> \in {pr \in qs \X qs : rank(pr[1]) % 2 = 1 /\ rank(pr[2]) = rank(pr[1]) + 1}}

IsSubstring(sub, str) ==
    \E i \in 1..(Len(str) - Len(sub) + 1) : SubSeq(str, i, i + Len(sub) - 1) = sub

\* C18 as stated: a double quote opens a quoted region wherever it occurs;
\* the characters of each region, whitespace preserved, are part of a single
\* word and no word holds a double quote.
C18_QuoteOpensRegionAnywhere ==
    Scanned =>
        /\ \A region \in QuotedRegions(ret.cmd) :
               \E k \in 1..Len(v.input) : IsSubstring(region, v.input[k])
        /\ \A k \in 1..Len(v.input) : QuotePositions(v.input[k]) = {}

\* C18 as amended: a double quote that begins a word opens a quoted region,
\* and the characters up to the next double quote, quotes excluded and
\* whitespace preserved, are a single word; a double quote inside an unquoted
\* word is an ordinary character of that word.
C18_QuoteOpensRegionAtWordStart ==
    Scanned =>
        /\ v.input = SplitWords(ret.cmd, 1)
        /\ ret.cmd = "what \"is this thing\"" => v.input = <<"what", "is this thing">>
        /\ ret.cmd = "\"is this thing\" this \"thing\"" =>
               v.input = <<"is this thing", "this", "thing">>
        /\ ret.cmd = "x \" y \" z" => v.input = <<"x", " y ", "z">>
        /\ ret.cmd = "a\"b c\"" => v.input = <<"a\"b", "c\"">>

\* C18 witness: Parse scanned an input with two quoted regions that hold
\* whitespace.
C18_Witness ==
    /\ Scanned
    /\ ret.cmd = "\"is this thing\" this \"thing\""
    /\ v.input = <<"is this thing", "this", "thing">>

\* The maximal runs of non-whitespace characters of str, in order.
MaximalRuns(str) ==
    LET nonSpace(i) == i \in 1..Len(str) /\ ~IsSpace(SubSeq(str, i, i))
        starts == {i \in 1..Len(str) : nonSpace(i) /\ ~nonSpace(i - 1)}
        ends == {i \in 1..Len(str) : nonSpace(i) /\ ~nonSpace(i + 1)}
        nth(S, k) == CHOOSE i \in S : Cardinality({j \in S : j < i}) = k - 1
    IN [k \in 1..Cardinality(starts) |-> SubSeq(str, nth(starts, k), nth(ends, k))]

\* C19: for an input without double quotes the words given to the VM are
\* the maximal runs of non-whitespace characters, in order; an empty or
\* whitespace-only input gives no word.
C19_WordsAreMaximalRuns ==
    (Scanned /\ QuotePositions(ret.cmd) = {}) =>
        /\ v.input = MaximalRuns(ret.cmd)
        /\ ret.cmd \in {"", "  ", " \t\n"} => v.input = <<>>
        /\ ret.cmd = " this    is \t\n a   test  " => v.input = <<"this", "is", "a", "test">>

\* C19 witness: Parse scanned an input with leading, repeated and trailing
\* whitespace.
C19_Witness ==
    /\ Scanned
    /\ ret.cmd = " this    is \t\n a   test  "
    /\ v.input = <<"this", "is", "a", "test">>

\* The positions of the variable bindings named name among items, and the
\* k-th of a set of positions.
VarPositions(items, name) ==
    {i \in 1..Len(items) : items[i].kind = "VarValue" /\ items[i].Name = name}

NthOf(S, k) == CHOOSE i \in S : Cardinality({j \in S : j < i}) = k - 1

\* The match the callback was given.
GivenMatch == cbackCalls[Len(cbackCalls)].match

\* C20: Match.Var(name) returns one entry (name, type, value) for every
\* variable binding named name of the match, in the order of the words they
\* consumed, the value being that word; it returns the empty list when no
\* variable of that name was bound, and never a keyword binding.
C20_VarReturnsBindingsInOrder ==
    ret.op = "Var" =>
        LET pos == VarPositions(GivenMatch.items, ret.name)
            words == SplitWords(ret.cmd, 1)
        IN /\ ret.value =
                  [k \in 1..Cardinality(pos) |->
                      [Name |-> ret.name,
                       Type |-> GivenMatch.items[NthOf(pos, k)].Type,
                       Value |-> words[NthOf(pos, k)]]]
           /\ pos = {} => ret.value = <<>>
           /\ \A k \in 1..Len(ret.value) :
                  <<ret.value[k].Name, ret.value[k].Type>> \in VarsOf(parseTree)
           /\ (ret.cmd = "a 1 2 3" /\ ret.name = "n") =>
                  ret.value = <<[Name |-> "n", Type |-> "int", Value |-> "1"],
                                [Name |-> "n", Type |-> "int", Value |-> "2"],
                                [Name |-> "n", Type |-> "int", Value |-> "3"]>>
           /\ (ret.cmd = "s 1 x 2" /\ ret.name = "n") =>
                  ret.value = <<[Name |-> "n", Type |-> "int", Value |-> "1"],
                                [Name |-> "n", Type |-> "str", Value |-> "2"]>>
           /\ ret.name \in {"add", "q"} => ret.value = <<>>

\* C20 witness: on "a 1 2 3" the callback asked for n and got 1, 2 and 3.
C20_Witness ==
    /\ ret.op = "Var"
    /\ ret.cmd = "a 1 2 3"
    /\ ret.name = "n"
    /\ Len(ret.value) = 3
    /\ ret.value[3] = [Name |-> "n", Type |-> "int", Value |-> "3"]

\* C20 witness of the keyword case: the match binds the keyword add and
\* Var("add") returned nothing.
C20_KeywordWitness ==
    /\ ret.op = "Var"
    /\ ret.name = "add"
    /\ \E i \in 1..Len(GivenMatch.items) :
           GivenMatch.items[i].kind = "keywordValue" /\ GivenMatch.items[i].Name = "add"
    /\ ret.value = <<>>

\* The CMP instructions of the program carry the keyword name.
HasCmp(name) ==
    \E i \in 1..Len(prog) : prog[i].opcode = "opCmp" /\ prog[i].strs[1] = name

\* The matches the grammar tree derives on the whole of the words.
WholeDerived(tree, words) == WithItems(AllDerived(tree, words), Len(words))

\* C21: Match.KeywordPresent(name) is true if and only if a CMP with the
\* full keyword name consumed a word of the input on the matching path,
\* whatever prefix of the keyword was typed; it is false for a keyword of an
\* optional part that was skipped and for a variable's name.
C21_KeywordPresentIffCmpBound ==
    ret.op = "KeywordPresent" =>
        LET words == SplitWords(ret.cmd, 1)
            bound(m) ==
                \E i \in 1..Len(words) :
                    /\ m.items[i] = keywordItem(ret.name, words[i])
                    /\ IsPrefixOf(words[i], ret.name)
        IN /\ ret.present <=> (HasCmp(ret.name) /\ bound(GivenMatch))
           /\ Fresh => \A k \in 1..Len(WholeDerived(parseTree, words)) :
                           ret.present <=> bound(WholeDerived(parseTree, words)[k])
           /\ (ret.cmd = "in t" /\ ret.name = "things") => ret.present
           /\ (ret.cmd = "in t" /\ ret.name \in {"t", "in"}) => ~ret.present
           /\ (ret.cmd \in {"info", "i"} /\ ret.name = "things") => ~ret.present
           /\ (ret.cmd = "d info" /\ ret.name = "info") => ~ret.present
           /\ (ret.cmd = "d info" /\ ret.name = "drop") => ret.present

\* C21 witness: on "in t" against "info things?" the callback asked for the
\* keyword things and got true.
C21_Witness ==
    /\ ret.op = "KeywordPresent"
    /\ ret.cmd = "in t"
    /\ ret.name = "things"
    /\ ret.present
    /\ GivenMatch.items[2].Value = "t"

\* C21 witness of the variable case: the variable info was bound to the
\* word info and KeywordPresent("info") returned false.
C21_VariableWitness ==
    /\ ret.op = "KeywordPresent"
    /\ ret.cmd = "d info"
    /\ ret.name = "info"
    /\ ~ret.present

\* C22: Parse on an empty program (nothing registered, or nothing compiled
\* but a nil tree) runs no thread, records no match, does not abort and
\* returns false without calling a callback, whatever the input and the
\* trace sink.
C22_EmptyProgramYieldsNoMatch ==
    (ret.op = "Parse" /\ prog = <<>>) =>
        /\ pcState \in {"execute", "executed", "idle"}
        /\ v.currentThreads = <<>>
        /\ v.nextThreads = <<>>
        /\ v.matches = <<>>
        /\ cbackCalls = <<>>
        /\ pcState = "executed" => maximalMatches(v) = <<>>
        /\ pcState = "idle" => ~ret.ok

\* C22 witness: Parse of two words returned false on an empty program with
\* a trace sink set.
C22_Witness ==
    /\ ret.op = "Parse"
    /\ ret.cmd = "show something"
    /\ prog = <<>>
    /\ trace
    /\ pcState = "idle"
    /\ ~ret.ok

\* The longest matches of the Parse run on cmd with the program as it is.
LongestOfRun(cmd) == longestMatches(execute(zeroVm, prog, cmdScan(cmd)))

\* C23: after a Parse that returned false, LongestMatches gives the caller
\* the longest matches of that Parse run.
C23_LongestMatchesGiven ==
    ret.op = "LongestMatches" => ret.value = LongestOfRun(ret.cmd)

\* No two threads of the list l stand at the same pc.
OnePerPc(l) == \A i, j \in 1..Len(l) : l[i].pc = l[j].pc => i = j

\* C24: addThread stamps the instruction of every thread it appends with
\* the current generation and appends nothing at an instruction already
\* stamped, so that the threads placed on nextThreads within one
\* generation stand at stamped instructions and at different pcs.
C24_OneThreadPerPcAndGeneration ==
    pcState = "execute" =>
        /\ \A i \in 1..Len(v.nextThreads) :
               v.prog[v.nextThreads[i].pc + 1].gen = v.gen
        /\ OnePerPc(v.nextThreads)

\* Some alts, terms, rep or meta node of tree has a nil child.
RECURSIVE HasNilChild(_)
HasNilChild(tree) ==
    CASE tree.type \in {"alts", "terms"} ->
            \/ tree.Left = NilTree
            \/ tree.Right = NilTree
            \/ HasNilChild(tree.Left)
            \/ HasNilChild(tree.Right)
      [] tree.type = "rep" -> tree.Term = NilTree \/ HasNilChild(tree.Term)
      [] tree.type = "meta" -> tree.ch = NilTree \/ HasNilChild(tree.ch)
      [] OTHER -> FALSE

\* C25: the trees registered by the calls of Add that returned a nil error
\* have no nil child, and Compile completes on them.
C25_AcceptedSyntaxHasNoNilChild ==
    /\ ~HasNilChild(parseTree)
    /\ pcState # "panicked"

\* The maximal matches of Parse on cmd with no trace sink set.
UntracedMaximal(cmd) == maximalMatches(execute(zeroVm, prog, cmdScan(cmd)))

\* C26: a Parse with a trace sink set completes, returns what Parse with no
\* sink returns on the same program and input, and dispatches the same
\* callback with the same match.
C26_TraceKeepsOutcome ==
    (ret.op = "Parse" /\ trace) =>
        /\ pcState # "panicked"
        /\ pcState = "idle" =>
               /\ ret.ok <=> Len(UntracedMaximal(ret.cmd)) = 1
               /\ ret.ok =>
                      /\ Len(cbackCalls) = 1
                      /\ cbackCalls[1].cback = UntracedMaximal(ret.cmd)[1].meta
                      /\ cbackCalls[1].match = UntracedMaximal(ret.cmd)[1]

\* The instructions of the reference construction, with resolved targets.
RefCmp(w) == [zeroInstr EXCEPT !.opcode = "opCmp", !.strs = <<w, "">>]

RefSave(name, typ) == [zeroInstr EXCEPT !.opcode = "opSave", !.strs = <<name, typ>>]

RefSplit(x, y) == [zeroInstr EXCEPT !.opcode = "opSplit", !.ints = <<x, y>>]

RefJmp(x) == [zeroInstr EXCEPT !.opcode = "opJmp", !.ints = <<x, 0>>]

RefMeta(data) == [zeroInstr EXCEPT !.opcode = "opMeta", !.intf = data]

RefMatch == [zeroInstr EXCEPT !.opcode = "opMatch"]

\* The reference Thompson construction of tree placed at address at, as
\* the sequence of its instructions.
RECURSIVE Thompson(_, _)
Thompson(tree, at) ==
    LET altsOf(L) ==
            LET withRight(R) ==
                    <<RefSplit(at + 1, at + Len(L) + 2)>> \o L
                        \o <<RefJmp(at + Len(L) + 2 + Len(R))>> \o R
            IN withRight(Thompson(tree.Right, at + Len(L) + 2))
        termsOf(L) == L \o Thompson(tree.Right, at + Len(L))
        starOf(T) == <<RefSplit(at + 1, at + Len(T) + 2)>> \o T \o <<RefJmp(at)>>
        plusOf(T) == T \o <<RefSplit(at, at + Len(T) + 1)>>
        optOf(T) == <<RefSplit(at + 1, at + Len(T) + 1)>> \o T
    IN CASE tree.type = "word" -> <<RefCmp(tree.s)>>
         [] tree.type = "variable" -> <<RefSave(tree.Name, tree.Type)>>
         [] tree.type = "alts" -> altsOf(Thompson(tree.Left, at + 1))
         [] tree.type = "terms" -> termsOf(Thompson(tree.Left, at))
         [] tree.type = "rep" /\ tree.Op = "repeatZeroOrMore" -> starOf(Thompson(tree.Term, at + 1))
         [] tree.type = "rep" /\ tree.Op = "repeatOneOrMore" -> plusOf(Thompson(tree.Term, at))
         [] tree.type = "rep" /\ tree.Op = "repeatZeroOrOne" -> optOf(Thompson(tree.Term, at + 1))
         [] tree.type = "meta" -> <<RefMeta(tree.data)>> \o Thompson(tree.ch, at + 1)

\* Compile has returned: prog is what compile made of parseTree.
Compiled == ret.op = "Compile" /\ pcState = "idle"

\* C27: for every tree of words, variables, alts, terms, reps and metas,
\* compile returns without aborting the program of the reference Thompson
\* construction, targets resolved, followed by one MATCH.
C27_CompileIsThompsonConstruction ==
    ret.op = "Compile" =>
        /\ pcState = "idle"
        /\ prog = Thompson(parseTree, 0) \o <<RefMatch>>
        /\ parseTree = alts(word("this"), word("that")) =>
               prog = <<RefSplit(1, 3), RefCmp("this"), RefJmp(4), RefCmp("that"), RefMatch>>
        /\ parseTree = rep("repeatOneOrMore", word("a")) =>
               prog = <<RefCmp("a"), RefSplit(0, 2), RefMatch>>
        /\ parseTree = rep("repeatZeroOrMore", word("a")) =>
               prog = <<RefSplit(1, 3), RefCmp("a"), RefJmp(0), RefMatch>>
        /\ parseTree = rep("repeatZeroOrOne", alts(word("a"), word("b"))) =>
               prog = <<RefSplit(1, 5), RefSplit(2, 4), RefCmp("a"), RefJmp(5),
                        RefCmp("b"), RefMatch>>
        /\ parseTree = meta("cb1", variable("v", "str")) =>
               prog = <<RefMeta("cb1"), RefSave("v", "str"), RefMatch>>

\* C27 witness: the alternation of an optional word and a repeated variable
\* has been compiled.
C27_Witness ==
    /\ Compiled
    /\ parseTree = alts(rep("repeatZeroOrOne", word("a")),
                        rep("repeatZeroOrMore", variable("v", "str")))
    /\ prog = <<RefSplit(1, 4), RefSplit(2, 3), RefCmp("a"), RefJmp(7),
                RefSplit(5, 7), RefSave("v", "str"), RefJmp(4), RefMatch>>

\* The number of instructions the reference construction gives tree.
RECURSIVE RefSize(_)
RefSize(tree) ==
    CASE tree.type \in {"word", "variable"} -> 1
      [] tree.type = "alts" -> RefSize(tree.Left) + RefSize(tree.Right) + 2
      [] tree.type = "terms" -> RefSize(tree.Left) + RefSize(tree.Right)
      [] tree.type = "rep" ->
            RefSize(tree.Term) + (IF tree.Op = "repeatZeroOrMore" THEN 2 ELSE 1)
      [] tree.type = "meta" -> RefSize(tree.ch) + 1

\* The compiler after its emit pass over tree, started on a program of
\* countinstrForProgram(tree) instructions.
AfterEmit(tree) == emit(newCompiler(countinstrForProgram(tree)), tree)

\* C28: the emit pass writes as many instructions as countinstr counts, so
\* that with the trailing MATCH the program allocated is filled exactly: no
\* write falls outside it and no instruction is left a NOP.
C28_EmitFillsWhatCountinstrCounts ==
    ret.op = "Compile" =>
        /\ pcState = "idle"
        /\ ~AfterEmit(parseTree).panic
        /\ AfterEmit(parseTree).pc = countinstr(parseTree)
        /\ countinstr(parseTree) = RefSize(parseTree)
        /\ Len(prog) = countinstr(parseTree) + 1
        /\ \A i \in 1..Len(prog) : prog[i].opcode # "opNop"
        /\ \A i \in 1..countinstr(parseTree) :
               AfterEmit(parseTree).instr[i].opcode # "opNop"
        /\ AfterEmit(parseTree).instr[countinstr(parseTree) + 1] = zeroInstr

\* C28 witness: a tree of ten instructions has been compiled to a program
\* of eleven.
C28_Witness ==
    /\ Compiled
    /\ parseTree = scanAndParse("((a | b)* c)+ <x:int>?").tree
    /\ countinstr(parseTree) = 10
    /\ Len(prog) = 11

\* The addresses the instruction at address pc of program pr names: both
\* targets of a SPLIT, the target of a JMP.
TargetsAt(pr, pc) ==
    CASE pr[pc + 1].opcode = "opSplit" -> {pr[pc + 1].ints[1], pr[pc + 1].ints[2]}
      [] pr[pc + 1].opcode = "opJmp" -> {pr[pc + 1].ints[1]}
      [] OTHER -> {}

\* C29: in every compiled program both targets of every SPLIT and the
\* target of every JMP are addresses of the program.
C29_TargetsInsideProgram ==
    ret.op = "Compile" =>
        /\ pcState = "idle"
        /\ \A pc \in 0..(Len(prog) - 1) :
               \A target \in TargetsAt(prog, pc) : 0 <= target /\ target < Len(prog)

\* C29 witness: a one-or-more repetition ends the tree, so that the second
\* target of its SPLIT is the last address of the program.
C29_Witness ==
    /\ Compiled
    /\ parseTree = terms(word("a"), rep("repeatOneOrMore", word("b")))
    /\ TargetsAt(prog, 2) = {1, 3}
    /\ Len(prog) = 4

\* The addresses the VM can go to from address pc of program pr: the
\* targets of a SPLIT or a JMP, nothing after a MATCH, the next address
\* after any other instruction.
Successors(pr, pc) ==
    CASE pr[pc + 1].opcode \in {"opSplit", "opJmp"} -> TargetsAt(pr, pc)
      [] pr[pc + 1].opcode = "opMatch" -> {}
      [] OTHER -> {pc + 1}

\* The addresses of pr reachable from the addresses S.
RECURSIVE ReachableFrom(_, _)
ReachableFrom(pr, S) ==
    LET grown(N) == IF N \subseteq S THEN S ELSE ReachableFrom(pr, S \cup N)
    IN grown({q \in UNION {Successors(pr, pc) : pc \in S} : q >= 0 /\ q < Len(pr)})

\* C30: every non-empty compiled program has exactly one MATCH, it is the
\* last instruction, and it is reachable from address 0.
C30_OneReachableTrailingMatch ==
    (ret.op = "Compile" /\ prog # <<>>) =>
        /\ {i \in 1..Len(prog) : prog[i].opcode = "opMatch"} = {Len(prog)}
        /\ (Len(prog) - 1) \in ReachableFrom(prog, {0})

\* C30 witness: a program with a loop and a branch has been compiled.
C30_Witness ==
    /\ Compiled
    /\ parseTree = alts(rep("repeatZeroOrMore", word("a")), word("b"))
    /\ ReachableFrom(prog, {0}) = 0..6
    /\ prog[7].opcode = "opMatch"

\* new is old with elements appended, and the elements appended.
Extends(old, new) == Len(new) >= Len(old) /\ SubSeq(new, 1, Len(old)) = old

AddedTo(old, new) == SubSeq(new, Len(old) + 1, Len(new))

\* Every binding of the thread t was made by a CMP or a SAVE of the program.
BoundByCmpOrSave(t) ==
    \A k \in 1..Len(t.items) :
        v.prog[t.items[k].instr + 1].opcode \in {"opCmp", "opSave"}

\* What one step of the thread t at an instruction with opcode op does to
\* the binding lists: cur, next and found are the threads it appends to the
\* two lists and the matches it records.
BindingStep(t, op, cur, next, found) ==
    /\ op \in {"opSplit", "opJmp", "opMeta"} =>
           /\ next = <<>> /\ found = <<>>
           /\ \A k \in 1..Len(cur) : cur[k].items = t.items
    /\ op \in {"opCmp", "opSave"} =>
           /\ cur = <<>> /\ found = <<>>
           /\ Len(next) <= 1
           /\ \A k \in 1..Len(next) :
                  /\ Len(next[k].items) = Len(t.items) + 1
                  /\ SubSeq(next[k].items, 1, Len(t.items)) = t.items
                  /\ next[k].items[Len(t.items) + 1].instr = t.pc
    /\ op = "opMatch" =>
           /\ cur = <<>> /\ next = <<>>
           /\ Len(found) = 1
           /\ Len(found[1].items) = Len(t.items)

\* C31: a binding list grows by one at each successful CMP or SAVE of its
\* thread and at no other instruction, a match has as many items as the
\* thread that reached MATCH has bindings, and no step of a thread changes
\* a thread already on a list or a match already recorded: the bindings
\* made after a clone stay out of the thread cloned.
C31_BindingsCountCmpAndSave ==
    /\ [](pcState = "execute" =>
             /\ \A k \in 1..Len(v.currentThreads) : BoundByCmpOrSave(v.currentThreads[k])
             /\ \A k \in 1..Len(v.nextThreads) : BoundByCmpOrSave(v.nextThreads[k]))
    /\ [][(pcState = "execute" /\ v.currentThreads # <<>> /\ pcState' = "execute") =>
             /\ Extends(Tail(v.currentThreads), v'.currentThreads)
             /\ Extends(v.nextThreads, v'.nextThreads)
             /\ Extends(v.matches, v'.matches)
             /\ BindingStep(Head(v.currentThreads),
                            v.prog[Head(v.currentThreads).pc + 1].opcode,
                            AddedTo(Tail(v.currentThreads), v'.currentThreads),
                            AddedTo(v.nextThreads, v'.nextThreads),
                            AddedTo(v.matches, v'.matches))]_vars

\* C31 witness: on "set 1 2" a thread holds three bindings while a match
\* of two items, recorded by a clone of its ancestor, is kept.
C31_Witness ==
    /\ pcState = "execute"
    /\ ret.cmd = "set 1 2"
    /\ \E i \in 1..Len(v.nextThreads) : Len(v.nextThreads[i].items) = 3
    /\ \E j \in 1..Len(v.matches) : Len(v.matches[j].items) = 2

\* The thread t holds k bindings, the i-th of them input word i.
HoldsFirstWords(t, k) ==
    /\ Len(t.items) = k
    /\ k <= Len(v.input)
    /\ \A i \in 1..k : t.items[i].val = v.input[i]

\* The items of the match m are the first words of the input, in order.
ItemsAreFirstWords(m) ==
    /\ Len(m.items) <= Len(v.input)
    /\ \A i \in 1..Len(m.items) : m.items[i].Value = v.input[i]

FreshDispatch(cmd, c) ==
    LET calls(mm) ==
            IF Len(mm) = 1
            THEN <<[cback |-> mm[1].meta, match |-> mm[1], ctx |-> c]>>
            ELSE <<>>
    IN calls(UntracedMaximal(cmd))

RECURSIVE EarlierTrees(_)
EarlierTrees(tree) ==
    IF tree.type = "alts" /\ tree.Left.type = "meta" /\ tree.Right.type \in {"alts", "meta"}
    THEN {tree} \cup EarlierTrees(tree.Right)
    ELSE {tree, NilTree}

\* The trees among them that compile to the program.
CompiledTrees == {T \in EarlierTrees(parseTree) : compile(T).prog = prog}

CompiledTree == CHOOSE T \in CompiledTrees : TRUE

\* C34: the program is at any time what Compile made of the commands that
\* were registered at the most recent Compile (empty before any), Add
\* leaves it alone, and the matches of a Parse are those of these commands:
\* none before a Compile, none of a command added since the last Compile,
\* and after a Compile those of every command registered; a second Compile
\* in a row would assign the same program.
C34_ParseUsesLastCompiledProgram ==
    /\ [](CompiledTrees # {})
    /\ [](pcState = "executed" =>
             SameBag(v.matches, AllDerived(CompiledTree, v.input)))
    /\ []((ret.op = "Parse" /\ pcState = "idle" /\ prog = <<>>) =>
             (~ret.ok /\ cbackCalls = <<>>))
    /\ []((ret.op = "Compile" /\ pcState = "idle") =>
             (CompiledTree = parseTree /\ prog = compile(parseTree).prog))
    /\ [][(ret'.op = "Add") => (prog' = prog)]_vars

\* C34 witness: "set 1 2" was parsed, without success, by a program compiled
\* before the command that matches it was added.
C34_Witness ==
    /\ ret.op = "Parse"
    /\ pcState = "idle"
    /\ ret.cmd = "set 1 2"
    /\ ~ret.ok
    /\ prog # <<>>
    /\ CompiledTree # parseTree
    /\ Len(WholeDerived(parseTree, cmdScan(ret.cmd))) = 1
    /\ WholeDerived(CompiledTree, cmdScan(ret.cmd)) = <<>>

\* C34 witness of the compiled case: the same input is matched once the
\* program has been compiled after the registration.
C34_CompiledWitness ==
    /\ ret.op = "Parse"
    /\ pcState = "idle"
    /\ ret.cmd = "set 1 2"
    /\ ret.ok
    /\ NumCmds(parseTree) = 2
    /\ CompiledTree = parseTree

(***************************************************************************)
(* C35.  parser.Parse returns on every token sequence, and the number of   *)
(* match calls it makes is bounded by a linear function of the number of   *)
(* tokens: at most seven calls for each token and four more.  On the      *)
(* inputs of TestParser the count stays below the limit of TestMatchLimit  *)
(* calls, so abortAndPrintState is never reached.                          *)
(***************************************************************************)
C35_ParserMatchCallsLinear ==
    ret.op = "TestParser" =>
        /\ pcState = "idle"
        /\ ret.matchCalls <= 7 * ret.tokens + 4
        /\ ret.cmd \in TestParserInputs => ret.matchCalls < TestMatchLimit

\* "((a >" is scanned into four tokens and parsed with 22 match calls; it
\* is rejected for its unclosed groups.
C35_Witness ==
    /\ ret.op = "TestParser"
    /\ pcState = "idle"
    /\ ret.cmd = "((a >"
    /\ ret.tokens = 4
    /\ ret.matchCalls = 22
    /\ ~ret.ok

\* "get (<v>|all)" of TestParser is the input with the most match calls, 26
\* for its eight tokens.
C35_TestInputWitness ==
    /\ ret.op = "TestParser"
    /\ ret.cmd = "get (<v>|all)"
    /\ ret.tokens = 8
    /\ ret.matchCalls = 26
    /\ ret.ok

====
